---- MODULE Spec2Model ----
(***************************************************************************)
(* Commit selection of gitlogue (src/git.rs): the GitRepository handle     *)
(* with its whole-history cache, its explicit commit range and the cursor  *)
(* the two share, over a small commit graph (Spec); the range parser on    *)
(* its own (SpecParse); the tree change extractor with the exclusion       *)
(* policy, the blob reader and the line diff (SpecExtract); the hunk       *)
(* builder on its own (SpecHunks); the configuration of the user's         *)
(* ignore patterns (SpecIgnore) and the same under concurrent calls        *)
(* (SpecThreads); and sequential playback with the run before a reset      *)
(* remembered (SpecReplay).                                                *)
(*                                                                         *)
(* Option<T> is a sequence of length 0 (None) or 1 (Some(v)).  Vec indices *)
(* are 1-based here, so the element the code reads at index i is v[i + 1]. *)
(***************************************************************************)
EXTENDS Integers, Sequences, FiniteSets, TLC

\* Number of commit objects of the modelled repository.
MaxCommits == 3

\* Cap of the counter of history walks (the counter exists only to observe).
MaxWalks == 2

Commits == 1..MaxCommits

\* head = NoCommit: HEAD is unborn, head_id() fails.
NoCommit == 0

None == <<>>

Some(v) == <<v>>

VARIABLES
    repo,          \* the object database: commit graph and HEAD (never written)
    commit_cache,  \* Option<Vec<ObjectId>>: the whole-history candidates
    commit_index,  \* the cursor shared by history and range playback
    commit_range,  \* Option<Vec<ObjectId>>: the explicit range
    result,        \* the last call: operation, outcome, selected commit, and the
                   \* expression a successful set_commit_range was given
    walks,         \* history walks run so far to fill commit_cache
    run,           \* sequential playback since the cursor was last zero
    USER_PATTERNS, \* OnceLock<GlobSet>: the user's ignore patterns
    call           \* the last application of a function that keeps no state
                   \* of its own: its name, its argument and what it returned

vars == <<repo, commit_cache, commit_index, commit_range, result, walks, run,
          USER_PATTERNS, call>>

----------------------------------------------------------------------------
(* Sequences *)

Reverse(s) == [i \in 1..Len(s) |-> s[Len(s) + 1 - i]]

Range(s) == {s[i] : i \in 1..Len(s)}

Max(S) == CHOOSE x \in S : \A y \in S : y <= x

RECURSIVE NewestFirst(_)
\* The commits of S as a sequence, highest number first.
NewestFirst(S) ==
    IF S = {} THEN <<>>
    ELSE <<Max(S)>> \o NewestFirst(S \ {Max(S)})

----------------------------------------------------------------------------
(* The repository.  Commit c is older than commit d when c < d.  parents[c] *)
(* are the parents of c present in the object database; nparents[c] is the  *)
(* number of parent ids the commit object records.  The two differ only    *)
(* for a commit at the boundary of a shallow clone, whose parents are      *)
(* recorded but absent; the model lets the oldest commit be such a commit. *)

ParentChoices(c) ==
    IF c = 1 THEN {{}}
    ELSE {S \in SUBSET (1..(c - 1)) : Cardinality(S) \in 1..2}

ParentMaps ==
    {p \in [Commits -> SUBSET Commits] : \A c \in Commits : p[c] \in ParentChoices(c)}

Repositories ==
    {[parents |-> p,
      nparents |-> [c \in Commits |-> IF c = 1 THEN s ELSE Cardinality(p[c])],
      head |-> h] :
        p \in ParentMaps, s \in 0..2, h \in {NoCommit} \cup Commits}

RECURSIVE Traverse(_, _, _, _)
\* gix's breadth-first traversal: pop the front of the queue, yield it, push
\* each parent not seen before.
Traverse(r, queue, seen, out) ==
    IF queue = <<>> THEN out
    ELSE LET c == Head(queue)
             fresh == NewestFirst(r.parents[c] \ seen)
         IN Traverse(r, Tail(queue) \o fresh, seen \cup r.parents[c], Append(out, c))

\* repo.rev_walk([tip]).all()?.filter_map(Result::ok)
rev_walk(r, tip) == Traverse(r, <<tip>>, {tip}, <<>>)

\* The parent test letting commits with two parents through.
IsNonMerge_two_parents(r, c) == r.nparents[c] <= 2

\* commit.parent_ids().count() <= 1
IsNonMerge(r, c) == r.nparents[c] <= 1

\* The candidates both random_commit and populate_cache collect from HEAD.
\* Every commit the walk yields is read by find_commit, which the model
\* takes to succeed (the walk has just decoded the same object).
Candidates(r) == SelectSeq(rev_walk(r, r.head), LAMBDA c : IsNonMerge(r, c))

\* extract_changes reads the first recorded parent of the commit: it fails
\* on a commit whose recorded parents are absent from the object database.
ParentsPresent(r, c) == r.nparents[c] = Cardinality(r.parents[c])

----------------------------------------------------------------------------
(* Range expressions.  An expression is a sequence of characters; "." is   *)
(* the dot, the character ToString(c) is a revision that names commit c,   *)
(* and every other revision text names nothing.                            *)

Dot == "."

\* A revision that resolves to no object.
Unknown == "x"

\* str::contains
Contains(s, pat) ==
    \E i \in 1..(Len(s) - Len(pat) + 1) : SubSeq(s, i, i + Len(pat) - 1) = pat

RECURSIVE Split(_, _)
\* str::split(pat).collect(): the pieces between the non-overlapping matches
\* of pat, found from the left.
Split(s, pat) ==
    IF ~Contains(s, pat) THEN <<s>>
    ELSE LET i == CHOOSE k \in 1..(Len(s) - Len(pat) + 1) :
                      /\ SubSeq(s, k, k + Len(pat) - 1) = pat
                      /\ \A j \in 1..(k - 1) : SubSeq(s, j, j + Len(pat) - 1) # pat
         IN <<SubSeq(s, 1, i - 1)>> \o Split(SubSeq(s, i + Len(pat), Len(s)), pat)

\* repo.rev_parse_single(text)?.object()?.id as an Option: None when the
\* revision does not resolve.
rev_parse_single(text) ==
    IF \E c \in Commits : text = <<ToString(c)>>
    THEN Some(CHOOSE c \in Commits : text = <<ToString(c)>>)
    ELSE None

\* Error messages, as the code words them.
Ok == "ok"

ErrNoNonMerge == "No non-merge commits found in repository"

ErrAllPlayed == "All commits have been played"

ErrSelect == "Failed to select commit"

ErrRangeNotSet == "Commit range not set"

ErrRangeEmpty == "No commits in range"

ErrRangePlayed == "All commits in range have been played"

ErrSymmetric == "Symmetric difference operator '...' is not supported"

ErrFormat == "Invalid range format"

\* Errors of the git library: head_id() on an unborn HEAD, rev_parse_single
\* on an unknown revision, and a commit, tree or parent that cannot be read.
ErrHead == "head_id"

ErrRevision == "rev_parse_single"

ErrLoad == "find_commit"

\* bail!: the error returned, and the expression its message quotes, if any.
bail(err, named) == [err |-> err, commits |-> <<>>, named |-> named]

\* parse_commit_range without the test for the three-dot operator.
parse_commit_range_dots_as_separator(r, range) ==
    IF ~Contains(range, <<Dot, Dot>>) THEN bail(ErrFormat, Some(range))
    ELSE LET parts == Split(range, <<Dot, Dot>>) IN
      IF Len(parts) # 2 THEN bail(ErrFormat, Some(range))
      ELSE LET start == IF parts[1] = <<>> THEN None ELSE rev_parse_single(parts[1])
               end == IF parts[2] = <<>>
                      THEN (IF r.head = NoCommit THEN None ELSE Some(r.head))
                      ELSE rev_parse_single(parts[2])
           IN
        IF parts[1] # <<>> /\ start = None THEN bail(ErrRevision, None)
        ELSE IF end = None
             THEN bail(IF parts[2] = <<>> THEN ErrHead ELSE ErrRevision, None)
        ELSE LET exclude_set == IF start = None THEN {} ELSE Range(rev_walk(r, start[1]))
                 commits == SelectSeq(rev_walk(r, end[1]),
                                      LAMBDA c : c \notin exclude_set /\ IsNonMerge(r, c))
             IN [err |-> Ok, commits |-> Reverse(commits), named |-> None]

\* parse_commit_range reading the first two parts of however many there are.
parse_commit_range_first_two_parts(r, range) ==
    IF Contains(range, <<Dot, Dot, Dot>>) THEN bail(ErrSymmetric, None)
    ELSE IF ~Contains(range, <<Dot, Dot>>) THEN bail(ErrFormat, Some(range))
    ELSE LET parts == Split(range, <<Dot, Dot>>) IN
      IF Len(parts) < 2 THEN bail(ErrFormat, Some(range))
      ELSE LET start == IF parts[1] = <<>> THEN None ELSE rev_parse_single(parts[1])
               end == IF parts[2] = <<>>
                      THEN (IF r.head = NoCommit THEN None ELSE Some(r.head))
                      ELSE rev_parse_single(parts[2])
           IN
        IF parts[1] # <<>> /\ start = None THEN bail(ErrRevision, None)
        ELSE IF end = None
             THEN bail(IF parts[2] = <<>> THEN ErrHead ELSE ErrRevision, None)
        ELSE LET exclude_set == IF start = None THEN {} ELSE Range(rev_walk(r, start[1]))
                 commits == SelectSeq(rev_walk(r, end[1]),
                                      LAMBDA c : c \notin exclude_set /\ IsNonMerge(r, c))
             IN [err |-> Ok, commits |-> Reverse(commits), named |-> None]

\* parse_commit_range returning the commits in the order of the walk.
parse_commit_range_unreversed(r, range) ==
    IF Contains(range, <<Dot, Dot, Dot>>) THEN bail(ErrSymmetric, None)
    ELSE IF ~Contains(range, <<Dot, Dot>>) THEN bail(ErrFormat, Some(range))
    ELSE LET parts == Split(range, <<Dot, Dot>>) IN
      IF Len(parts) # 2 THEN bail(ErrFormat, Some(range))
      ELSE LET start == IF parts[1] = <<>> THEN None ELSE rev_parse_single(parts[1])
               end == IF parts[2] = <<>>
                      THEN (IF r.head = NoCommit THEN None ELSE Some(r.head))
                      ELSE rev_parse_single(parts[2])
           IN
        IF parts[1] # <<>> /\ start = None THEN bail(ErrRevision, None)
        ELSE IF end = None
             THEN bail(IF parts[2] = <<>> THEN ErrHead ELSE ErrRevision, None)
        ELSE LET exclude_set == IF start = None THEN {} ELSE Range(rev_walk(r, start[1]))
                 commits == SelectSeq(rev_walk(r, end[1]),
                                      LAMBDA c : c \notin exclude_set /\ IsNonMerge(r, c))
             IN [err |-> Ok, commits |-> commits, named |-> None]

\* parse_commit_range keeping the start revision itself in the range.
parse_commit_range_start_kept(r, range) ==
    IF Contains(range, <<Dot, Dot, Dot>>) THEN bail(ErrSymmetric, None)
    ELSE IF ~Contains(range, <<Dot, Dot>>) THEN bail(ErrFormat, Some(range))
    ELSE LET parts == Split(range, <<Dot, Dot>>) IN
      IF Len(parts) # 2 THEN bail(ErrFormat, Some(range))
      ELSE LET start == IF parts[1] = <<>> THEN None ELSE rev_parse_single(parts[1])
               end == IF parts[2] = <<>>
                      THEN (IF r.head = NoCommit THEN None ELSE Some(r.head))
                      ELSE rev_parse_single(parts[2])
           IN
        IF parts[1] # <<>> /\ start = None THEN bail(ErrRevision, None)
        ELSE IF end = None
             THEN bail(IF parts[2] = <<>> THEN ErrHead ELSE ErrRevision, None)
        ELSE LET exclude_set == IF start = None THEN {} ELSE Range(rev_walk(r, start[1])) \ {start[1]}
                 commits == SelectSeq(rev_walk(r, end[1]),
                                      LAMBDA c : c \notin exclude_set /\ IsNonMerge(r, c))
             IN [err |-> Ok, commits |-> Reverse(commits), named |-> None]

\* fn parse_commit_range: the error it returns (Ok for none), the commits of
\* the range, oldest first, and the expression its error message quotes.
parse_commit_range(r, range) ==
    IF Contains(range, <<Dot, Dot, Dot>>) THEN bail(ErrSymmetric, None)
    ELSE IF ~Contains(range, <<Dot, Dot>>) THEN bail(ErrFormat, Some(range))
    ELSE LET parts == Split(range, <<Dot, Dot>>) IN
      IF Len(parts) # 2 THEN bail(ErrFormat, Some(range))
      ELSE LET start == IF parts[1] = <<>> THEN None ELSE rev_parse_single(parts[1])
               end == IF parts[2] = <<>>
                      THEN (IF r.head = NoCommit THEN None ELSE Some(r.head))
                      ELSE rev_parse_single(parts[2])
           IN
        IF parts[1] # <<>> /\ start = None THEN bail(ErrRevision, None)
        ELSE IF end = None
             THEN bail(IF parts[2] = <<>> THEN ErrHead ELSE ErrRevision, None)
        ELSE LET exclude_set == IF start = None THEN {} ELSE Range(rev_walk(r, start[1]))
                 commits == SelectSeq(rev_walk(r, end[1]),
                                      LAMBDA c : c \notin exclude_set /\ IsNonMerge(r, c))
             IN [err |-> Ok, commits |-> Reverse(commits), named |-> None]

\* The revisions a caller writes on either side of the separator.
RevTexts == {<<>>, <<Unknown>>} \cup {<<ToString(c)>> : c \in Commits}

Separators == {<<>>, <<Dot>>, <<Dot, Dot>>, <<Dot, Dot, Dot>>}

\* The range expressions set_commit_range is called with: nothing, an unknown
\* name or the oldest commit below "..", any of these or the newest commit
\* above it, and nothing or the oldest commit on both sides of each of the
\* other separators.  The parser is given every pair of revisions and every
\* short text in its own specification, SpecParse.
RangeExprs ==
    {l \o <<Dot, Dot>> \o u : l \in {<<>>, <<Unknown>>, <<ToString(1)>>},
                              u \in {<<>>, <<Unknown>>, <<ToString(1)>>,
                                     <<ToString(MaxCommits)>>}}
        \cup {l \o s \o l : l \in {<<>>, <<ToString(1)>>},
                            s \in Separators \ {<<Dot, Dot>>}}

----------------------------------------------------------------------------
(* The handle *)

\* populate_cache walking the history whether or not the cache is filled.
populate_cache_always_walks(r, cache) ==
    IF r.head = NoCommit THEN [cache |-> cache, err |-> ErrHead, walked |-> FALSE]
    ELSE IF Candidates(r) = <<>> THEN [cache |-> cache, err |-> ErrNoNonMerge, walked |-> TRUE]
    ELSE [cache |-> Some(Candidates(r)), err |-> Ok, walked |-> TRUE]

\* populate_cache storing the candidates without testing them for emptiness.
populate_cache_storing_empty(r, cache) ==
    IF cache # None THEN [cache |-> cache, err |-> Ok, walked |-> FALSE]
    ELSE IF r.head = NoCommit THEN [cache |-> None, err |-> ErrHead, walked |-> FALSE]
    ELSE [cache |-> Some(Candidates(r)), err |-> Ok, walked |-> TRUE]

\* fn populate_cache: the cache after the call, the error it returns, and
\* whether it walked the history.  random_commit holds a copy of this code.
populate_cache(r, cache) ==
    IF cache # None THEN [cache |-> cache, err |-> Ok, walked |-> FALSE]
    ELSE IF r.head = NoCommit THEN [cache |-> None, err |-> ErrHead, walked |-> FALSE]
    ELSE IF Candidates(r) = <<>> THEN [cache |-> None, err |-> ErrNoNonMerge, walked |-> TRUE]
    ELSE [cache |-> Some(Candidates(r)), err |-> Ok, walked |-> TRUE]

Failed(err) == [err |-> err, oid |-> NoCommit]

\* Vec::get(i).context(message)?
Get(v, i, message) ==
    IF i + 1 \in DOMAIN v THEN [err |-> Ok, oid |-> v[i + 1]] ELSE Failed(message)

\* next_asc_commit reading the candidates from the head forward.
select_asc_from_head(candidates, index) ==
    IF candidates = <<>> THEN Failed(ErrNoNonMerge)
    ELSE IF index >= Len(candidates) THEN Failed(ErrAllPlayed)
    ELSE Get(candidates, index, ErrSelect)

\* next_asc_commit beginning again at the oldest commit when all are played.
select_asc_wrapping(candidates, index) ==
    IF candidates = <<>> THEN Failed(ErrNoNonMerge)
    ELSE Get(candidates, Len(candidates) - 1 - (index % Len(candidates)), ErrSelect)

\* The checks and the indexing of next_asc_commit, after populate_cache.
select_asc(candidates, index) ==
    IF candidates = <<>> THEN Failed(ErrNoNonMerge)
    ELSE IF index >= Len(candidates) THEN Failed(ErrAllPlayed)
    ELSE Get(candidates, Len(candidates) - 1 - index, ErrSelect)

\* next_desc_commit letting the cursor reach one past the end.
select_desc_past_end(candidates, index) ==
    IF candidates = <<>> THEN Failed(ErrNoNonMerge)
    ELSE IF index > Len(candidates) THEN Failed(ErrAllPlayed)
    ELSE Get(candidates, index, ErrSelect)

\* The checks and the indexing of next_desc_commit, after populate_cache.
select_desc(candidates, index) ==
    IF candidates = <<>> THEN Failed(ErrNoNonMerge)
    ELSE IF index >= Len(candidates) THEN Failed(ErrAllPlayed)
    ELSE Get(candidates, index, ErrSelect)

\* next_range_commit_asc testing for exhaustion before emptiness.
select_range_asc_swapped(range, index) ==
    IF range = None THEN Failed(ErrRangeNotSet)
    ELSE IF index >= Len(range[1]) THEN Failed(ErrRangePlayed)
    ELSE IF range[1] = <<>> THEN Failed(ErrRangeEmpty)
    ELSE Get(range[1], index, ErrSelect)

\* The checks and the indexing of next_range_commit_asc.
select_range_asc(range, index) ==
    IF range = None THEN Failed(ErrRangeNotSet)
    ELSE IF range[1] = <<>> THEN Failed(ErrRangeEmpty)
    ELSE IF index >= Len(range[1]) THEN Failed(ErrRangePlayed)
    ELSE Get(range[1], index, ErrSelect)

\* next_range_commit_desc indexing from the front of the range.
select_range_desc_from_front(range, index) ==
    IF range = None THEN Failed(ErrRangeNotSet)
    ELSE IF range[1] = <<>> THEN Failed(ErrRangeEmpty)
    ELSE IF index >= Len(range[1]) THEN Failed(ErrRangePlayed)
    ELSE Get(range[1], index, ErrSelect)

\* next_range_commit_desc computing its index without the test for the end.
select_range_desc_unguarded(range, index) ==
    IF range = None THEN Failed(ErrRangeNotSet)
    ELSE IF range[1] = <<>> THEN Failed(ErrRangeEmpty)
    ELSE Get(range[1], Len(range[1]) - 1 - index, ErrSelect)

\* The checks and the indexing of next_range_commit_desc.
select_range_desc(range, index) ==
    IF range = None THEN Failed(ErrRangeNotSet)
    ELSE IF range[1] = <<>> THEN Failed(ErrRangeEmpty)
    ELSE IF index >= Len(range[1]) THEN Failed(ErrRangePlayed)
    ELSE Get(range[1], Len(range[1]) - 1 - index, ErrSelect)

\* find_commit(selected) followed by extract_metadata_with_changes: io is
\* whether the object database could be read.
Loaded(r, c, io) == IF io /\ ParentsPresent(r, c) THEN Ok ELSE ErrLoad

Outcome(op, arg, err, c) == [op |-> op, arg |-> arg, err |-> err, commit |-> c]

FreshRun == [kind |-> "fresh", commits |-> <<>>, first |-> None]

MixedRun == [kind |-> "mixed", commits |-> <<>>, first |-> None]

\* The four kinds of sequential playback.
Directions == {"asc", "desc", "range_asc", "range_desc"}

\* The commits one kind of sequential playback has returned since the cursor
\* was zero.  A run whose cursor another kind or a failed load has moved is
\* mixed and is followed no further.
Played(kind, err, c) ==
    IF kind \in Directions /\ err = Ok /\ run.kind \in {"fresh", kind}
    THEN [kind |-> kind, commits |-> Append(run.commits, c), first |-> run.first]
    ELSE MixedRun

\* The operation of each kind of sequential playback.
OpOf(kind) ==
    CASE kind = "asc" -> "next_asc_commit"
      [] kind = "desc" -> "next_desc_commit"
      [] kind = "range_asc" -> "next_range_commit_asc"
      [] kind = "range_desc" -> "next_range_commit_desc"

\* The last call was one of a run of one kind and found its list played.
Exhausted ==
    /\ run.kind \in Directions
    /\ result.op = OpOf(run.kind)
    /\ result.err \in {ErrAllPlayed, ErrRangePlayed}

\* The value of call while the runs before a reset are observed.
Replaying == [fn |-> "replay", arg |-> <<>>, out |-> <<>>]

\* The run that reset_index begins: where replays are observed it remembers
\* the run it ends when that one was played to the end.
RunAfterReset ==
    IF call.fn = "replay" /\ Exhausted
    THEN [kind |-> "fresh", commits |-> <<>>,
          first |-> Some([kind |-> run.kind, commits |-> run.commits])]
    ELSE FreshRun

\* The sequential operations loading the commit without advancing the cursor.
Advance_cursor_kept(op, kind, sel) ==
    IF sel.err # Ok
    THEN /\ result' = Outcome(op, <<>>, sel.err, NoCommit)
         /\ UNCHANGED <<commit_index, run>>
    ELSE \E io \in BOOLEAN :
           LET err == Loaded(repo, sel.oid, io) IN
           /\ commit_index' = commit_index
           /\ result' = Outcome(op, <<>>, err, sel.oid)
           /\ run' = Played(kind, err, sel.oid)

\* The end of the four sequential operations: a failed selection returns its
\* error; a selection advances the cursor and then loads the commit.
Advance(op, kind, sel) ==
    IF sel.err # Ok
    THEN /\ result' = Outcome(op, <<>>, sel.err, NoCommit)
         /\ UNCHANGED <<commit_index, run>>
    ELSE \E io \in BOOLEAN :
           LET err == Loaded(repo, sel.oid, io) IN
           /\ commit_index' = commit_index + 1
           /\ result' = Outcome(op, <<>>, err, sel.oid)
           /\ run' = Played(kind, err, sel.oid)

\* No function has been applied.
NoCall == [fn |-> "", arg |-> <<>>, out |-> <<>>]

Init ==
    /\ repo \in Repositories
    /\ commit_cache = None
    /\ commit_index = 0
    /\ commit_range = None
    /\ result = Outcome("open", <<>>, Ok, NoCommit)
    /\ walks = 0
    /\ run = FreshRun
    /\ USER_PATTERNS = None
    /\ call = NoCall

Walked(p) == walks + (IF p.walked THEN 1 ELSE 0)

\* The walk counter is capped: no call that would walk once more is taken.
CanPopulate == commit_cache # None \/ walks < MaxWalks

\* fn get_commit: the revision is resolved and its commit is loaded, whatever
\* the number of its parents; the cursor and the lists are not read.
get_commit ==
    /\ \E hash \in RevTexts, io \in BOOLEAN :
         LET id == rev_parse_single(hash) IN
         result' = IF id = None
                   THEN Outcome("get_commit", <<>>, ErrRevision, NoCommit)
                   ELSE Outcome("get_commit", <<>>, Loaded(repo, id[1], io), id[1])
    /\ UNCHANGED <<repo, commit_cache, commit_index, commit_range, walks, run,
                   USER_PATTERNS, call>>

random_commit ==
    /\ CanPopulate
    /\ LET p == populate_cache(repo, commit_cache) IN
        /\ commit_cache' = p.cache
        /\ walks' = Walked(p)
        /\ IF p.err # Ok
           THEN result' = Outcome("random_commit", <<>>, p.err, NoCommit)
           ELSE \E i \in 0..(Len(p.cache[1]) - 1), io \in BOOLEAN :
                  LET sel == Get(p.cache[1], i, "Failed to select random commit") IN
                  result' = Outcome("random_commit", <<>>,
                                    IF sel.err # Ok THEN sel.err
                                    ELSE Loaded(repo, sel.oid, io), sel.oid)
    /\ UNCHANGED <<repo, commit_index, commit_range, run>>
    /\ UNCHANGED <<USER_PATTERNS, call>>

next_asc_commit ==
    /\ CanPopulate
    /\ LET p == populate_cache(repo, commit_cache) IN
        /\ commit_cache' = p.cache
        /\ walks' = Walked(p)
        /\ IF p.err # Ok
           THEN /\ result' = Outcome("next_asc_commit", <<>>, p.err, NoCommit)
                /\ UNCHANGED <<commit_index, run>>
           ELSE Advance("next_asc_commit", "asc", select_asc(p.cache[1], commit_index))
    /\ UNCHANGED <<repo, commit_range>>
    /\ UNCHANGED <<USER_PATTERNS, call>>

next_desc_commit ==
    /\ CanPopulate
    /\ LET p == populate_cache(repo, commit_cache) IN
        /\ commit_cache' = p.cache
        /\ walks' = Walked(p)
        /\ IF p.err # Ok
           THEN /\ result' = Outcome("next_desc_commit", <<>>, p.err, NoCommit)
                /\ UNCHANGED <<commit_index, run>>
           ELSE Advance("next_desc_commit", "desc", select_desc(p.cache[1], commit_index))
    /\ UNCHANGED <<repo, commit_range>>
    /\ UNCHANGED <<USER_PATTERNS, call>>

\* reset_index dropping the cache with the cursor.
reset_index_dropping_cache ==
    /\ commit_index' = 0
    /\ commit_cache' = None
    /\ result' = Outcome("reset_index", <<>>, Ok, NoCommit)
    /\ run' = FreshRun
    /\ UNCHANGED <<repo, commit_range, walks>>
    /\ UNCHANGED <<USER_PATTERNS, call>>


reset_index ==
    /\ commit_index' = 0
    /\ result' = Outcome("reset_index", <<>>, Ok, NoCommit)
    /\ run' = RunAfterReset
    /\ UNCHANGED <<repo, commit_cache, commit_range, walks>>
    /\ UNCHANGED <<USER_PATTERNS, call>>

\* set_commit_range storing the range and leaving the cursor where it was.
set_commit_range_cursor_kept ==
    \E range \in RangeExprs :
      LET parsed == parse_commit_range(repo, range) IN
        /\ IF parsed.err # Ok
           THEN /\ result' = Outcome("set_commit_range", <<>>, parsed.err, NoCommit)
                /\ UNCHANGED <<commit_range, commit_index, run>>
           ELSE /\ result' = Outcome("set_commit_range", range, Ok, NoCommit)
                /\ commit_range' = Some(parsed.commits)
                /\ UNCHANGED <<commit_index, run>>
        /\ UNCHANGED <<repo, commit_cache, walks, USER_PATTERNS, call>>

\* set_commit_range dropping the whole-history cache when it stores a range.
set_commit_range_dropping_cache ==
    \E range \in RangeExprs :
      LET parsed == parse_commit_range(repo, range) IN
        /\ IF parsed.err # Ok
           THEN /\ result' = Outcome("set_commit_range", <<>>, parsed.err, NoCommit)
                /\ UNCHANGED <<commit_range, commit_index, run, commit_cache>>
           ELSE /\ result' = Outcome("set_commit_range", range, Ok, NoCommit)
                /\ commit_range' = Some(parsed.commits)
                /\ commit_index' = 0
                /\ commit_cache' = None
                /\ run' = FreshRun
        /\ UNCHANGED <<repo, walks, USER_PATTERNS, call>>

\* set_commit_range forgetting the stored range when the new one is refused.
set_commit_range_forgetting ==
    \E range \in RangeExprs :
      LET parsed == parse_commit_range(repo, range) IN
        /\ IF parsed.err # Ok
           THEN /\ result' = Outcome("set_commit_range", <<>>, parsed.err, NoCommit)
                /\ commit_range' = None
                /\ commit_index' = 0
                /\ run' = FreshRun
           ELSE /\ result' = Outcome("set_commit_range", range, Ok, NoCommit)
                /\ commit_range' = Some(parsed.commits)
                /\ commit_index' = 0
                /\ run' = FreshRun
        /\ UNCHANGED <<repo, commit_cache, walks, USER_PATTERNS, call>>

set_commit_range ==
    \E range \in RangeExprs :
      LET parsed == parse_commit_range(repo, range) IN
        /\ IF parsed.err # Ok
           THEN /\ result' = Outcome("set_commit_range", <<>>, parsed.err, NoCommit)
                /\ UNCHANGED <<commit_range, commit_index, run>>
           ELSE /\ result' = Outcome("set_commit_range", range, Ok, NoCommit)
                /\ commit_range' = Some(parsed.commits)
                /\ commit_index' = 0
                /\ run' = FreshRun
        /\ UNCHANGED <<repo, commit_cache, walks, USER_PATTERNS, call>>

next_range_commit_asc ==
    /\ Advance("next_range_commit_asc", "range_asc", select_range_asc(commit_range, commit_index))
    /\ UNCHANGED <<repo, commit_cache, commit_range, walks>>
    /\ UNCHANGED <<USER_PATTERNS, call>>

next_range_commit_desc ==
    /\ Advance("next_range_commit_desc", "range_desc", select_range_desc(commit_range, commit_index))
    /\ UNCHANGED <<repo, commit_cache, commit_range, walks>>
    /\ UNCHANGED <<USER_PATTERNS, call>>

\* random_range_commit moving the cursor past the commit it returns.
random_range_commit_advancing ==
    /\ IF commit_range = None
       THEN /\ result' = Outcome("random_range_commit", <<>>, ErrRangeNotSet, NoCommit)
            /\ UNCHANGED commit_index
       ELSE LET commits == commit_range[1] IN
         IF commits = <<>>
         THEN /\ result' = Outcome("random_range_commit", <<>>, ErrRangeEmpty, NoCommit)
              /\ UNCHANGED commit_index
         ELSE \E i \in 0..(Len(commits) - 1), io \in BOOLEAN :
                LET sel == Get(commits, i, "Failed to select random commit") IN
                /\ result' = Outcome("random_range_commit", <<>>,
                                     IF sel.err # Ok THEN sel.err
                                     ELSE Loaded(repo, sel.oid, io), sel.oid)
                /\ commit_index' = i + 1
    /\ UNCHANGED <<repo, commit_cache, commit_range, walks, run>>
    /\ UNCHANGED <<USER_PATTERNS, call>>

random_range_commit ==
    /\ IF commit_range = None
       THEN result' = Outcome("random_range_commit", <<>>, ErrRangeNotSet, NoCommit)
       ELSE LET commits == commit_range[1] IN
         IF commits = <<>>
         THEN result' = Outcome("random_range_commit", <<>>, ErrRangeEmpty, NoCommit)
         ELSE \E i \in 0..(Len(commits) - 1), io \in BOOLEAN :
                LET sel == Get(commits, i, "Failed to select random commit") IN
                result' = Outcome("random_range_commit", <<>>,
                                  IF sel.err # Ok THEN sel.err
                                  ELSE Loaded(repo, sel.oid, io), sel.oid)
    /\ UNCHANGED <<repo, commit_cache, commit_index, commit_range, walks, run>>
    /\ UNCHANGED <<USER_PATTERNS, call>>

Next ==
    \/ get_commit
    \/ random_commit
    \/ next_asc_commit
    \/ next_desc_commit
    \/ reset_index
    \/ set_commit_range
    \/ next_range_commit_asc
    \/ next_range_commit_desc
    \/ random_range_commit

Spec == Init /\ [][Next]_vars

----------------------------------------------------------------------------
(* Properties *)

HistoryOps == {"random_commit", "next_asc_commit", "next_desc_commit"}

SequentialOps ==
    {"next_asc_commit", "next_desc_commit", "next_range_commit_asc", "next_range_commit_desc"}

RangeOps == {"next_range_commit_asc", "next_range_commit_desc", "random_range_commit"}

\* How often c occurs in s.
Occurrences(s, c) == Cardinality({i \in 1..Len(s) : s[i] = c})

\* C1: a run of next_asc_commit alone from cursor 0 whose first failure is
\* the exhaustion error has returned every commit of the candidate list
\* exactly once, last element first; the same run of next_desc_commit has
\* returned them first element first, which is the ascending run reversed.
C1_RunsAreReverses ==
    (/\ result.err = ErrAllPlayed
     /\ \/ result.op = "next_asc_commit" /\ run.kind = "asc"
        \/ result.op = "next_desc_commit" /\ run.kind = "desc") =>
        LET cache == commit_cache[1]
            n == Len(cache)
        IN /\ Len(run.commits) = n
           /\ \A c \in Range(cache) : Occurrences(run.commits, c) = 1
           /\ run.kind = "asc" => \A i \in 1..n : run.commits[i] = cache[n + 1 - i]
           /\ run.kind = "desc" => run.commits = Reverse([i \in 1..n |-> cache[n + 1 - i]])

\* An ascending run of at least two commits has ended in exhaustion.
C1_Witness ==
    /\ result.op = "next_asc_commit"
    /\ result.err = ErrAllPlayed
    /\ run.kind = "asc"
    /\ Len(run.commits) >= 2

\* C2: every successful call of one of the four sequential operations
\* increases the one cursor by exactly one.
C2_SuccessAdvancesByOne ==
    [][(result'.op \in SequentialOps /\ result'.err = Ok)
           => commit_index' = commit_index + 1]_vars

\* A range call has succeeded on a cursor that whole-history playback moved.
C2_Witness ==
    /\ result.op = "next_range_commit_desc"
    /\ result.err = Ok
    /\ commit_cache # None
    /\ run.kind = "mixed"
    /\ commit_index >= 2

\* C3: with the cache populated, len its length and c the cursor before the
\* call: if c < len, next_asc_commit selects element len - 1 - c and
\* next_desc_commit element c (counted from 0); otherwise both fail with
\* "All commits have been played".
C3_Indexing ==
    [][(result'.op \in {"next_asc_commit", "next_desc_commit"} /\ commit_cache' # None) =>
          LET cache == commit_cache'[1]
              len == Len(cache)
              c == commit_index
          IN IF c < len
             THEN /\ result'.err \in {Ok, ErrLoad}
                  /\ result'.op = "next_asc_commit" => result'.commit = cache[(len - 1 - c) + 1]
                  /\ result'.op = "next_desc_commit" => result'.commit = cache[c + 1]
             ELSE result'.err = ErrAllPlayed]_vars

\* next_desc_commit has failed with the cursor at the length of a cache of
\* two or more commits.
C3_Witness ==
    /\ result.op = "next_desc_commit"
    /\ result.err = ErrAllPlayed
    /\ commit_cache # None
    /\ commit_index = Len(commit_cache[1])
    /\ commit_index >= 2

\* C4: no range is stored exactly as long as set_commit_range has not
\* succeeded.  A range operation fails with "Commit range not set" when no
\* range is stored; else with "No commits in range" when the stored range is
\* empty, whatever the cursor; else, for the two sequential ones, with "All
\* commits in range have been played" when the cursor is at or past the
\* length of the range, and with none of the three otherwise.
\* random_range_commit never reports exhaustion.
C4_RangeErrors ==
    [][/\ commit_range' = None <=>
              /\ commit_range = None
              /\ ~(result'.op = "set_commit_range" /\ result'.err = Ok)
       /\ result'.op \in RangeOps =>
              IF commit_range = None THEN result'.err = ErrRangeNotSet
              ELSE IF commit_range[1] = <<>> THEN result'.err = ErrRangeEmpty
              ELSE IF /\ result'.op # "random_range_commit"
                      /\ commit_index >= Len(commit_range[1])
              THEN result'.err = ErrRangePlayed
              ELSE result'.err \in {Ok, ErrLoad}]_vars

\* A sequential range call has met an empty range with the cursor past zero.
C4_Witness ==
    /\ result.op = "next_range_commit_asc"
    /\ result.err = ErrRangeEmpty
    /\ commit_range = Some(<<>>)
    /\ commit_index >= 1

\* C5: a successful set_commit_range(expr) stores exactly the list parsed
\* from expr in place of the stored range and sets the cursor to zero.
C5_SetRangeReplaces ==
    [][(result'.op = "set_commit_range" /\ result'.err = Ok) =>
          /\ commit_range' = Some(parse_commit_range(repo, result'.arg).commits)
          /\ commit_index' = 0]_vars

\* A range of two or more commits has been stored after whole-history
\* playback had populated the cache.
C5_Witness ==
    /\ result.op = "set_commit_range"
    /\ result.err = Ok
    /\ commit_cache # None
    /\ commit_range # None
    /\ Len(commit_range[1]) >= 2
    /\ commit_index = 0

\* C6: reset_index sets the cursor to zero, leaves the cache and the stored
\* range as they were, and walks no history.
C6_ResetKeepsLists ==
    [][result'.op = "reset_index" =>
          /\ commit_index' = 0
          /\ commit_cache' = commit_cache
          /\ commit_range' = commit_range
          /\ walks' = walks]_vars

\* The cursor has been reset with the cache populated and a range stored.
C6_Witness ==
    /\ result.op = "reset_index"
    /\ commit_cache # None
    /\ commit_range # None
    /\ commit_index = 0
    /\ walks = 1

\* C7: set_commit_range never changes the cache; random_commit,
\* next_asc_commit and next_desc_commit (populate_cache within them) never
\* change the stored range; the stored range changes only in a successful
\* set_commit_range.
C7_ListsIndependent ==
    [][/\ result'.op = "set_commit_range" => commit_cache' = commit_cache
       /\ result'.op \in HistoryOps => commit_range' = commit_range
       /\ commit_range' # commit_range =>
              (result'.op = "set_commit_range" /\ result'.err = Ok)]_vars

\* The cache has been populated by a call made while a range was stored.
C7_Witness ==
    /\ result.op = "next_asc_commit"
    /\ result.err = Ok
    /\ commit_index = 1
    /\ commit_cache # None
    /\ commit_range # None
    /\ commit_range[1] # <<>>
    /\ run.kind = "asc"

\* C8 as stated: the history walk for the cache runs at most once.
C8_WalksAtMostOnce == walks <= 1

\* C8 as amended: a call walks the history only while the cache is
\* unpopulated, and a populated cache is never dropped or replaced; so the
\* cache is populated at most once and no walk follows its population.
C8_NoWalkOncePopulated ==
    [][/\ walks' # walks => (commit_cache = None /\ walks' = walks + 1)
       /\ commit_cache # None => commit_cache' = commit_cache]_vars

\* Several calls of both directions and a reset have been served by one walk.
C8_Witness ==
    /\ walks = 1
    /\ commit_cache # None
    /\ result.op = "next_desc_commit"
    /\ result.err = Ok
    /\ run.kind = "mixed"
    /\ commit_index >= 2

RECURSIVE Ancestors(_, _)
\* The commits reachable from those of S over parent edges, S included.
Ancestors(r, S) ==
    LET T == S \cup UNION {r.parents[c] : c \in S}
    IN IF T = S THEN S ELSE Ancestors(r, T)

\* The place of commit c in the sequence s.
Position(s, c) == CHOOSE i \in 1..Len(s) : s[i] = c

\* C9: a populated cache holds exactly the commits reachable from HEAD that
\* record at most one parent, each once, in the order the walk from HEAD
\* yields them; and no step changes a populated cache.
C9_CacheIsNonMergeHistory ==
    /\ [](commit_cache # None =>
            LET cache == commit_cache[1]
                walk == rev_walk(repo, repo.head)
            IN /\ Range(cache) =
                      {c \in Ancestors(repo, {repo.head}) : repo.nparents[c] <= 1}
               /\ \A c \in Range(cache) : Occurrences(cache, c) = 1
               /\ \A i, j \in 1..Len(cache) :
                      i < j => Position(walk, cache[i]) < Position(walk, cache[j]))
    /\ [][commit_cache # None => commit_cache' = commit_cache]_vars

\* The cache holds two or more commits of a history whose HEAD is a merge.
C9_Witness ==
    /\ commit_cache # None
    /\ Len(commit_cache[1]) >= 2
    /\ repo.nparents[repo.head] = 2
    /\ result.op = "set_commit_range"

\* No commit reachable from HEAD records at most one parent.
OnlyMerges ==
    /\ repo.head # NoCommit
    /\ \A c \in Ancestors(repo, {repo.head}) : repo.nparents[c] > 1

----------------------------------------------------------------------------
(* The range parser on its own *)

\* The longest range expression that is parsed.
MaxExprLen == 5

\* Every text of at most n characters of the alphabet.
RECURSIVE Texts(_, _)
Texts(alphabet, n) ==
    IF n = 0 THEN {<<>>}
    ELSE LET shorter == Texts(alphabet, n - 1) IN
         shorter \cup {<<a>> \o t : a \in alphabet, t \in {x \in shorter : Len(x) = n - 1}}

\* The expressions parse_commit_range is applied to: every text made of
\* dots, the name of the oldest commit and an unknown name, and every pair
\* of revisions around "..".
ParseExprs ==
    Texts({Dot, ToString(1), Unknown}, MaxExprLen)
        \cup {l \o <<Dot, Dot>> \o u : l \in RevTexts, u \in RevTexts}

\* One application of parse_commit_range to the repository.
ParseRange ==
    /\ call.fn = ""
    /\ \E range \in ParseExprs :
         call' = [fn |-> "parse_commit_range", arg |-> range,
                  out |-> parse_commit_range(repo, range)]
    /\ UNCHANGED <<repo, commit_cache, commit_index, commit_range, result, walks, run,
                   USER_PATTERNS>>

NextParse == ParseRange

SpecParse == Init /\ [][NextParse]_vars

Parsed == call.fn = "parse_commit_range"

HasThreeDots(s) ==
    \E i \in 1..(Len(s) - 2) : s[i] = Dot /\ s[i + 1] = Dot /\ s[i + 2] = Dot

\* The number of ".." separators, read from the left without overlap.
RECURSIVE CountSeparators(_)
CountSeparators(s) ==
    IF Len(s) < 2 THEN 0
    ELSE IF s[1] = Dot /\ s[2] = Dot THEN 1 + CountSeparators(SubSeq(s, 3, Len(s)))
    ELSE CountSeparators(Tail(s))

\* The text that names commit c; the empty text for no commit.
Name(c) == IF c = NoCommit THEN <<>> ELSE <<ToString(c)>>

\* The parser went on to resolve the endpoints.
Resolving(err) == err \in {Ok, ErrRevision, ErrHead}

\* C11: every expression that contains "..." is rejected with the
\* 'Symmetric difference operator' error, whatever stands around the dots,
\* resolvable or not; it yields no commits.
C11_ThreeDotsRejected ==
    (Parsed /\ HasThreeDots(call.arg))
        => (call.out.err = ErrSymmetric /\ call.out.commits = <<>>)

C11_Witness ==
    /\ Parsed
    /\ call.arg = <<Unknown, Dot, Dot, Dot, Unknown>>
    /\ call.out.err = ErrSymmetric

\* C12 as stated: the endpoints are resolved only when the expression has
\* exactly one ".." separator, and every expression with another number of
\* separators fails with the format error that quotes the expression.
C12_OtherCountsAreFormatErrors ==
    Parsed =>
        /\ Resolving(call.out.err) => CountSeparators(call.arg) = 1
        /\ CountSeparators(call.arg) # 1
               => (call.out.err = ErrFormat /\ call.out.named = Some(call.arg))

\* C12, amended: the endpoints are resolved only when the expression has
\* exactly one ".." separator, and every expression without "..." that has
\* another number of separators fails with the format error that quotes the
\* expression.
C12_FormatErrors ==
    Parsed =>
        /\ Resolving(call.out.err) => CountSeparators(call.arg) = 1
        /\ (CountSeparators(call.arg) # 1 /\ ~HasThreeDots(call.arg))
               => (call.out.err = ErrFormat /\ call.out.named = Some(call.arg))

C12_Witness ==
    /\ Parsed
    /\ call.arg = <<Dot, Dot, ToString(1), Dot, Dot>>
    /\ call.out.err = ErrFormat
    /\ call.out.named = Some(call.arg)

\* C13: for L..U whose endpoints resolve (U empty stands for HEAD, L empty
\* excludes nothing) the parser returns exactly the commits with at most one
\* parent that are reachable from U and not from L, L included, each once,
\* in the reverse of the order of the walk from U.
C13_RangeIsDifference ==
    \A L \in Commits \cup {NoCommit}, U \in Commits \cup {NoCommit} :
        (Parsed /\ call.arg = Name(L) \o <<Dot, Dot>> \o Name(U)
                /\ (U = NoCommit => repo.head # NoCommit))
        => LET upper == IF U = NoCommit THEN repo.head ELSE U
               lower == IF L = NoCommit THEN {} ELSE Ancestors(repo, {L})
               expected == {c \in Ancestors(repo, {upper}) \ lower : repo.nparents[c] <= 1}
               walk == rev_walk(repo, upper)
               commits == call.out.commits
           IN /\ call.out.err = Ok
              /\ Range(commits) = expected
              /\ Len(commits) = Cardinality(expected)
              /\ \A i, j \in 1..Len(commits) :
                    i < j => Position(walk, commits[i]) > Position(walk, commits[j])

C13_Witness ==
    /\ Parsed
    /\ call.arg = <<ToString(1), Dot, Dot, ToString(MaxCommits)>>
    /\ call.out.err = Ok
    /\ Len(call.out.commits) = MaxCommits - 1

NoMerges(r) == \A c \in Commits : r.nparents[c] <= 1

Without(s, removed) == SelectSeq(s, LAMBDA c : c \notin Range(removed))

\* C14 as stated: for commits A and B of a history without merges, A..B,
\* ..B and A.. all parse, and the list of A..B is the list of ..B without
\* the elements of the list of ..A, in the same order.
C14_ThreeFormsParse ==
    \A A \in Commits, B \in Commits :
        (Parsed /\ call.arg = Name(A) \o <<Dot, Dot>> \o Name(B) /\ NoMerges(repo))
        => /\ call.out.err = Ok
           /\ parse_commit_range(repo, <<Dot, Dot>> \o Name(B)).err = Ok
           /\ parse_commit_range(repo, Name(A) \o <<Dot, Dot>>).err = Ok
           /\ call.out.commits
                 = Without(parse_commit_range(repo, <<Dot, Dot>> \o Name(B)).commits,
                           parse_commit_range(repo, <<Dot, Dot>> \o Name(A)).commits)

\* C14, amended: for commits A and B of a history without merges, A..B and
\* ..B parse, A.. parses exactly when HEAD resolves to a commit, and the
\* list of A..B is the list of ..B without the elements of the list of ..A,
\* in the same order.
C14_RangeSubtraction ==
    \A A \in Commits, B \in Commits :
        (Parsed /\ call.arg = Name(A) \o <<Dot, Dot>> \o Name(B) /\ NoMerges(repo))
        => /\ call.out.err = Ok
           /\ parse_commit_range(repo, <<Dot, Dot>> \o Name(B)).err = Ok
           /\ parse_commit_range(repo, Name(A) \o <<Dot, Dot>>).err = Ok
                 <=> repo.head # NoCommit
           /\ call.out.commits
                 = Without(parse_commit_range(repo, <<Dot, Dot>> \o Name(B)).commits,
                           parse_commit_range(repo, <<Dot, Dot>> \o Name(A)).commits)

C14_Witness ==
    /\ Parsed
    /\ NoMerges(repo)
    /\ call.arg = <<ToString(1), Dot, Dot, ToString(MaxCommits)>>
    /\ Len(call.out.commits) = MaxCommits - 1
    /\ Len(parse_commit_range(repo, <<Dot, Dot, ToString(MaxCommits)>>).commits) = MaxCommits

----------------------------------------------------------------------------
(* Range playback against whole-history playback *)

\* What parse_commit_range makes of "..", the range of the whole history.
WholeRange == parse_commit_range(repo, <<Dot, Dot>>)

\* C15: a run of next_range_commit_asc from cursor 0 returns the commits of
\* the range from its first, oldest, element on and a run of
\* next_range_commit_desc from its last, newest, element on; when the range
\* is that of "..", the i-th commit of the run is the one next_asc_commit,
\* respectively next_desc_commit, selects at cursor i - 1, and the run is
\* exhausted after as many commits as the whole history has candidates.
C15_RangePlayback ==
    (commit_range # None /\ run.kind \in {"range_asc", "range_desc"})
    => LET range == commit_range[1]
           n == Len(run.commits)
       IN /\ n <= Len(range)
          /\ \A i \in 1..n :
                run.commits[i] = IF run.kind = "range_asc" THEN range[i]
                                 ELSE range[Len(range) + 1 - i]
          /\ (WholeRange.err = Ok /\ range = WholeRange.commits)
                => /\ \A i \in 1..n :
                        run.commits[i]
                           = IF run.kind = "range_asc"
                             THEN select_asc(Candidates(repo), i - 1).oid
                             ELSE select_desc(Candidates(repo), i - 1).oid
                   /\ result.err = ErrRangePlayed => n = Len(Candidates(repo))

C15_Witness ==
    /\ commit_range = Some(WholeRange.commits)
    /\ run.kind = "range_desc"
    /\ Len(run.commits) = MaxCommits
    /\ result.op = "next_range_commit_desc"
    /\ result.err = ErrRangePlayed

----------------------------------------------------------------------------
(* The exclusion policy.  Paths, file names and patterns are sequences of
   characters. *)

\* const MAX_BLOB_SIZE: the largest blob that is read, in bytes.
MAX_BLOB_SIZE == 500 * 1024

\* const MAX_CHANGE_LINES: the most changed lines of a file that is animated.
MAX_CHANGE_LINES == 2000

EXCLUDED_FILES == {
    \* yarn.lock
    <<"y", "a", "r", "n", ".", "l", "o", "c", "k">>,
    \* package-lock.json
    <<"p", "a", "c", "k", "a", "g", "e", "-", "l", "o", "c", "k", ".", "j", "s", "o", "n">>,
    \* pnpm-lock.yaml
    <<"p", "n", "p", "m", "-", "l", "o", "c", "k", ".", "y", "a", "m", "l">>,
    \* bun.lock
    <<"b", "u", "n", ".", "l", "o", "c", "k">>,
    \* bun.lockb
    <<"b", "u", "n", ".", "l", "o", "c", "k", "b">>,
    \* Cargo.lock
    <<"C", "a", "r", "g", "o", ".", "l", "o", "c", "k">>,
    \* Gemfile.lock
    <<"G", "e", "m", "f", "i", "l", "e", ".", "l", "o", "c", "k">>,
    \* poetry.lock
    <<"p", "o", "e", "t", "r", "y", ".", "l", "o", "c", "k">>,
    \* Pipfile.lock
    <<"P", "i", "p", "f", "i", "l", "e", ".", "l", "o", "c", "k">>,
    \* composer.lock
    <<"c", "o", "m", "p", "o", "s", "e", "r", ".", "l", "o", "c", "k">>,
    \* go.sum
    <<"g", "o", ".", "s", "u", "m">>,
    \* Package.resolved
    <<"P", "a", "c", "k", "a", "g", "e", ".", "r", "e", "s", "o", "l", "v", "e", "d">>,
    \* pubspec.lock
    <<"p", "u", "b", "s", "p", "e", "c", ".", "l", "o", "c", "k">>,
    \* packages.lock.json
    <<"p", "a", "c", "k", "a", "g", "e", "s", ".", "l", "o", "c", "k", ".", "j", "s", "o", "n">>,
    \* project.assets.json
    <<"p", "r", "o", "j", "e", "c", "t", ".", "a", "s", "s", "e", "t", "s", ".", "j", "s", "o", "n">>,
    \* mix.lock
    <<"m", "i", "x", ".", "l", "o", "c", "k">>,
    \* gradle.lockfile
    <<"g", "r", "a", "d", "l", "e", ".", "l", "o", "c", "k", "f", "i", "l", "e">>,
    \* buildscript-gradle.lockfile
    <<"b", "u", "i", "l", "d", "s", "c", "r", "i", "p", "t", "-", "g", "r", "a", "d", "l", "e", ".", "l", "o", "c", "k", "f", "i", "l", "e">>,
    \* build.sbt.lock
    <<"b", "u", "i", "l", "d", ".", "s", "b", "t", ".", "l", "o", "c", "k">>,
    \* MODULE.bazel.lock
    <<"M", "O", "D", "U", "L", "E", ".", "b", "a", "z", "e", "l", ".", "l", "o", "c", "k">>}

EXCLUDED_PATTERNS == {
    \* .min.js
    <<".", "m", "i", "n", ".", "j", "s">>,
    \* .min.css
    <<".", "m", "i", "n", ".", "c", "s", "s">>,
    \* .bundle.js
    <<".", "b", "u", "n", "d", "l", "e", ".", "j", "s">>,
    \* .bundle.css
    <<".", "b", "u", "n", "d", "l", "e", ".", "c", "s", "s">>,
    \* .js.map
    <<".", "j", "s", ".", "m", "a", "p">>,
    \* .css.map
    <<".", "c", "s", "s", ".", "m", "a", "p">>,
    \* .d.ts.map
    <<".", "d", ".", "t", "s", ".", "m", "a", "p">>,
    \* .snap
    <<".", "s", "n", "a", "p">>,
    \* __snapshots__
    <<"_", "_", "s", "n", "a", "p", "s", "h", "o", "t", "s", "_", "_">>}

Slash == "/"

\* path.rsplit('/').next().unwrap_or(path): what follows the last slash.
FileName(path) ==
    LET slashes == {i \in 1..Len(path) : path[i] = Slash}
    IN IF slashes = {} THEN path ELSE SubSeq(path, Max(slashes) + 1, Len(path))

\* str::ends_with
EndsWith(s, pat) ==
    Len(pat) <= Len(s) /\ SubSeq(s, Len(s) - Len(pat) + 1, Len(s)) = pat

RECURSIVE GlobMatch(_, _)
\* One glob of the user against a whole path: "*" stands for any characters,
\* slashes among them, "?" for any one character, any other character for
\* itself.
GlobMatch(glob, path) ==
    IF glob = <<>> THEN path = <<>>
    ELSE IF Head(glob) = "*"
         THEN GlobMatch(Tail(glob), path)
                 \/ (path # <<>> /\ GlobMatch(glob, Tail(path)))
    ELSE /\ path # <<>>
         /\ Head(glob) \in {"?", Head(path)}
         /\ GlobMatch(Tail(glob), Tail(path))

\* GlobSet::is_match: some glob of the set matches.
is_match(patterns, path) == \E glob \in patterns : GlobMatch(glob, path)

\* should_exclude_file looking for the lock file names anywhere in the path.
should_exclude_file_lock_anywhere(path) ==
    IF USER_PATTERNS # None /\ is_match(USER_PATTERNS[1], path) THEN TRUE
    ELSE LET filename == FileName(path) IN
         IF \E name \in EXCLUDED_FILES : Contains(path, name) THEN TRUE
         ELSE \E pattern \in EXCLUDED_PATTERNS :
                 EndsWith(filename, pattern) \/ Contains(path, pattern)

\* fn should_exclude_file: the user's patterns, then the lock and generated
\* file names, then the patterns of generated files.
should_exclude_file(path) ==
    IF USER_PATTERNS # None /\ is_match(USER_PATTERNS[1], path) THEN TRUE
    ELSE LET filename == FileName(path) IN
         IF filename \in EXCLUDED_FILES THEN TRUE
         ELSE \E pattern \in EXCLUDED_PATTERNS :
                 EndsWith(filename, pattern) \/ Contains(path, pattern)

----------------------------------------------------------------------------
(* Blobs, the line diff and the hunks.  A blob is its length in bytes,
   whether it holds a NUL byte, and the lines of its text; a blob that
   cannot be found in the object database is None. *)

\* is_blob_binary taking a blob of exactly MAX_BLOB_SIZE bytes for binary.
is_blob_binary_at_limit(blob) ==
    IF blob = None THEN FALSE
    ELSE blob[1].size >= MAX_BLOB_SIZE \/ blob[1].nul

\* fn is_blob_binary
is_blob_binary(blob) ==
    IF blob = None THEN FALSE
    ELSE blob[1].size > MAX_BLOB_SIZE \/ blob[1].nul

\* fn get_blob_content, followed by .ok().flatten(): the text of the blob as
\* lines, None for a binary blob and for one that cannot be found.
get_blob_content(blob) ==
    IF blob = None THEN None
    ELSE IF blob[1].size > MAX_BLOB_SIZE \/ blob[1].nul THEN None
    ELSE Some(blob[1].lines)

\* The number of lines the two texts begin with in common.
CommonPrefix(a, b) ==
    LET m == IF Len(a) < Len(b) THEN Len(a) ELSE Len(b)
        differ == {i \in 1..m : a[i] # b[i]}
    IN IF differ = {} THEN m ELSE (CHOOSE i \in differ : \A k \in differ : i <= k) - 1

RECURSIVE Lcs(_, _)
\* The length of a longest common subsequence of two texts.
Lcs(a, b) ==
    IF a = <<>> \/ b = <<>> \/ Range(a) \cap Range(b) = {} THEN 0
    ELSE IF Head(a) = Head(b) THEN 1 + Lcs(Tail(a), Tail(b))
    ELSE LET x == Lcs(Tail(a), b)
             y == Lcs(a, Tail(b))
         IN IF x >= y THEN x ELSE y

RECURSIVE diff(_, _, _, _)
\* gix::diff::blob::diff: the changed regions of a minimal edit script that
\* turns the lines of a into those of b, from line i of a and line j of b on
\* (counted from zero), in order.  A region is the half-open range of lines
\* it removes from a and the half-open range of lines it inserts from b.
diff(a, b, i, j) ==
    LET ra == SubSeq(a, i + 1, Len(a))
        rb == SubSeq(b, j + 1, Len(b))
        k == CommonPrefix(ra, rb)
        n == Lcs(ra, rb)
        \* where the region that starts here may end: at the first line kept
        \* by some longest common subsequence, or at the end of both texts
        ends == IF n = 0 THEN {<<Len(ra), Len(rb)>>}
                ELSE {e \in (0..(Len(ra) - 1)) \X (0..(Len(rb) - 1)) :
                        /\ ra[e[1] + 1] = rb[e[2] + 1]
                        /\ 1 + Lcs(SubSeq(ra, e[1] + 2, Len(ra)),
                                   SubSeq(rb, e[2] + 2, Len(rb))) = n}
        \* the shortest such region, and of two as short the one that
        \* removes more lines: deletions come before insertions
        end == CHOOSE e \in ends :
                 \A f \in ends : \/ e[1] + e[2] < f[1] + f[2]
                                 \/ (e[1] + e[2] = f[1] + f[2] /\ e[1] >= f[1])
    IN IF ra = <<>> /\ rb = <<>> THEN <<>>
       ELSE IF k > 0 THEN diff(a, b, i + k, j + k)
       ELSE <<[before |-> <<i, i + end[1]>>, after |-> <<j, j + end[2]>>]>>
               \o diff(a, b, i + end[1], j + end[2])

\* process_change listing the added lines before the deleted ones.
process_change_additions_first(input, before, after) ==
    LET old_start == before[1] + 1
        new_start == after[1] + 1
        old_lines == before[2] - before[1]
        new_lines == after[2] - after[1]
        deletions == [n \in 1..old_lines |->
                        [change_type |-> "Deletion",
                         content |-> input.before[before[1] + n],
                         old_line_no |-> Some(old_start + n - 1),
                         new_line_no |-> None]]
        additions == [n \in 1..new_lines |->
                        [change_type |-> "Addition",
                         content |-> input.after[after[1] + n],
                         old_line_no |-> None,
                         new_line_no |-> Some(new_start + n - 1)]]
    IN [old_start |-> old_start, old_lines |-> old_lines,
        new_start |-> new_start, new_lines |-> new_lines,
        lines |-> additions \o deletions]

\* process_change counting to old_lines the line before.end as well.
process_change_end_inclusive(input, before, after) ==
    LET old_start == before[1] + 1
        new_start == after[1] + 1
        old_lines == before[2] - before[1] + 1
        new_lines == after[2] - after[1]
        deletions == [n \in 1..(before[2] - before[1]) |->
                        [change_type |-> "Deletion",
                         content |-> input.before[before[1] + n],
                         old_line_no |-> Some(old_start + n - 1),
                         new_line_no |-> None]]
        additions == [n \in 1..new_lines |->
                        [change_type |-> "Addition",
                         content |-> input.after[after[1] + n],
                         old_line_no |-> None,
                         new_line_no |-> Some(new_start + n - 1)]]
    IN [old_start |-> old_start, old_lines |-> old_lines,
        new_start |-> new_start, new_lines |-> new_lines,
        lines |-> deletions \o additions]

\* process_change numbering the added lines on from the deleted ones.
process_change_one_counter(input, before, after) ==
    LET old_start == before[1] + 1
        new_start == after[1] + 1
        old_lines == before[2] - before[1]
        new_lines == after[2] - after[1]
        deletions == [n \in 1..(before[2] - before[1]) |->
                        [change_type |-> "Deletion",
                         content |-> input.before[before[1] + n],
                         old_line_no |-> Some(old_start + n - 1),
                         new_line_no |-> None]]
        additions == [n \in 1..new_lines |->
                        [change_type |-> "Addition",
                         content |-> input.after[after[1] + n],
                         old_line_no |-> None,
                         new_line_no |-> Some(old_start + old_lines + n - 1)]]
    IN [old_start |-> old_start, old_lines |-> old_lines,
        new_start |-> new_start, new_lines |-> new_lines,
        lines |-> deletions \o additions]

\* process_change taking after.start itself for new_start.
process_change_new_start_from_zero(input, before, after) ==
    LET old_start == before[1] + 1
        new_start == after[1]
        old_lines == before[2] - before[1]
        new_lines == after[2] - after[1]
        deletions == [n \in 1..(before[2] - before[1]) |->
                        [change_type |-> "Deletion",
                         content |-> input.before[before[1] + n],
                         old_line_no |-> Some(old_start + n - 1),
                         new_line_no |-> None]]
        additions == [n \in 1..new_lines |->
                        [change_type |-> "Addition",
                         content |-> input.after[after[1] + n],
                         old_line_no |-> None,
                         new_line_no |-> Some(new_start + n - 1)]]
    IN [old_start |-> old_start, old_lines |-> old_lines,
        new_start |-> new_start, new_lines |-> new_lines,
        lines |-> deletions \o additions]

\* DiffHunkCollector::process_change: one hunk for one changed region, its
\* deleted lines first and its added lines after them.
process_change(input, before, after) ==
    LET old_start == before[1] + 1
        new_start == after[1] + 1
        old_lines == before[2] - before[1]
        new_lines == after[2] - after[1]
        deletions == [n \in 1..old_lines |->
                        [change_type |-> "Deletion",
                         content |-> input.before[before[1] + n],
                         old_line_no |-> Some(old_start + n - 1),
                         new_line_no |-> None]]
        additions == [n \in 1..new_lines |->
                        [change_type |-> "Addition",
                         content |-> input.after[after[1] + n],
                         old_line_no |-> None,
                         new_line_no |-> Some(new_start + n - 1)]]
    IN [old_start |-> old_start, old_lines |-> old_lines,
        new_start |-> new_start, new_lines |-> new_lines,
        lines |-> deletions \o additions]

\* The longest common ending of two texts.
CommonSuffix(a, b) == CommonPrefix(Reverse(a), Reverse(b))

\* A diff that reports all of two differing texts as one changed region.
blob_diff_whole(before, after) ==
    IF before = after THEN <<>>
    ELSE <<[before |-> <<0, Len(before)>>, after |-> <<0, Len(after)>>]>>

\* gix::diff::blob::diff: the changed regions of two token lists, taken
\* between their common beginning and, of what follows it, their common ending.
blob_diff(before, after) ==
    LET prefix == CommonPrefix(before, after)
        postfix == CommonSuffix(SubSeq(before, prefix + 1, Len(before)),
                                SubSeq(after, prefix + 1, Len(after)))
    IN diff(SubSeq(before, 1, Len(before) - postfix),
            SubSeq(after, 1, Len(after) - postfix), 0, 0)

\* generate_hunks returning the hunk of the first changed region only.
generate_hunks_first_region(old_content, new_content) ==
    LET input == [before |-> IF old_content = None THEN <<>> ELSE old_content[1],
                  after |-> IF new_content = None THEN <<>> ELSE new_content[1]]
        regions == blob_diff(input.before, input.after)
    IN [h \in 1..(IF regions = <<>> THEN 0 ELSE 1) |->
          process_change(input, regions[h].before, regions[h].after)]

\* generate_hunks taking absent content for a text of one empty line.
generate_hunks_absent_as_blank(old_content, new_content) ==
    LET input == [before |-> IF old_content = None THEN <<"">> ELSE old_content[1],
                  after |-> IF new_content = None THEN <<"">> ELSE new_content[1]]
        regions == blob_diff(input.before, input.after)
    IN [h \in 1..Len(regions) |->
          process_change(input, regions[h].before, regions[h].after)]

\* fn generate_hunks: absent content is the empty text; one hunk for each
\* changed region of the diff.
generate_hunks(old_content, new_content) ==
    LET input == [before |-> IF old_content = None THEN <<>> ELSE old_content[1],
                  after |-> IF new_content = None THEN <<>> ELSE new_content[1]]
        regions == blob_diff(input.before, input.after)
    IN [h \in 1..Len(regions) |->
          process_change(input, regions[h].before, regions[h].after)]

----------------------------------------------------------------------------
(* The tree change extractor *)

\* FileStatus::from_change
from_change(change) ==
    CASE change.kind = "Addition" -> "Added"
      [] change.kind = "Deletion" -> "Deleted"
      [] change.kind = "Modification" -> "Modified"
      [] change.kind = "Rewrite" /\ ~change.copy -> "Renamed"
      [] change.kind = "Rewrite" /\ change.copy -> "Copied"

LockReason == "lock/generated file"

\* format!("too many changes ({} lines)", total_changed_lines)
TooManyReason(total_changed_lines) ==
    "too many changes (" \o ToString(total_changed_lines) \o " lines)"

\* The exclusion decision testing the ceiling before the policy.
exclusion_ceiling_first(path, total_changed_lines) ==
    IF total_changed_lines > MAX_CHANGE_LINES
    THEN <<TRUE, Some(TooManyReason(total_changed_lines))>>
    ELSE IF should_exclude_file(path) THEN <<TRUE, Some(LockReason)>>
    ELSE <<FALSE, None>>

\* The exclusion decision naming a reason for files it does not exclude.
exclusion_reason_always(path, total_changed_lines) ==
    IF should_exclude_file(path) THEN <<TRUE, Some(LockReason)>>
    ELSE IF total_changed_lines > MAX_CHANGE_LINES
    THEN <<TRUE, Some(TooManyReason(total_changed_lines))>>
    ELSE <<FALSE, Some(TooManyReason(total_changed_lines))>>

\* The exclusion decision with the ceiling itself counted as too many.
exclusion_at_ceiling(path, total_changed_lines) ==
    IF should_exclude_file(path) THEN <<TRUE, Some(LockReason)>>
    ELSE IF total_changed_lines >= MAX_CHANGE_LINES
    THEN <<TRUE, Some(TooManyReason(total_changed_lines))>>
    ELSE <<FALSE, None>>

\* extract_changes, "Determine exclusion reason": is_excluded and
\* exclusion_reason of a file.
exclusion(path, total_changed_lines) ==
    IF should_exclude_file(path) THEN <<TRUE, Some(LockReason)>>
    ELSE IF total_changed_lines > MAX_CHANGE_LINES
    THEN <<TRUE, Some(TooManyReason(total_changed_lines))>>
    ELSE <<FALSE, None>>

\* hunks.iter().flat_map(|hunk| &hunk.lines).count()
LineCount(hunks) ==
    LET RECURSIVE Sum(_)
        Sum(n) == IF n = 0 THEN 0 ELSE Len(hunks[n].lines) + Sum(n - 1)
    IN Sum(Len(hunks))

\* The closure extract_changes runs on one change of the tree diff that is
\* not a tree: the FileChange it pushes.
FileChangeOf(change) ==
    LET path == change.location
        old_path == IF change.kind = "Rewrite" THEN Some(change.source_location) ELSE None
        old_id == CASE change.kind = "Addition" -> None
                    [] change.kind = "Deletion" -> Some(change.id)
                    [] OTHER -> Some(change.source_id)
        new_id == IF change.kind = "Deletion" THEN None ELSE Some(change.id)
        is_binary == CASE change.kind \in {"Addition", "Deletion"} -> is_blob_binary(change.id)
                       [] OTHER -> is_blob_binary(change.source_id) \/ is_blob_binary(change.id)
        old_content == IF old_id = None THEN None ELSE get_blob_content(old_id[1])
        new_content == IF new_id = None THEN None ELSE get_blob_content(new_id[1])
        hunks == IF ~is_binary THEN generate_hunks(old_content, new_content) ELSE <<>>
        total_changed_lines == LineCount(hunks)
        excluded == exclusion(path, total_changed_lines)
    IN [path |-> path, old_path |-> old_path, status |-> from_change(change),
        is_binary |-> is_binary, is_excluded |-> excluded[1],
        exclusion_reason |-> excluded[2],
        old_content |-> old_content, new_content |-> new_content,
        hunks |-> hunks, diff |-> ""]

\* extract_changes making a FileChange of the tree entries as well.
extract_changes_with_trees(tree_changes) ==
    [n \in 1..Len(tree_changes) |-> FileChangeOf(tree_changes[n])]

\* fn extract_changes on the changes the tree diff of the commit against its
\* first parent reports: entries that are trees are passed over, every other
\* change becomes a FileChange, in the order of the tree diff.
extract_changes(tree_changes) ==
    LET files == SelectSeq(tree_changes, LAMBDA change : ~change.is_tree)
    IN [n \in 1..Len(files) |-> FileChangeOf(files[n])]

----------------------------------------------------------------------------
(* The extractor on its own: one application of extract_changes to the tree
   diff of a commit. *)

\* The most changes in the tree diff of the commit.
MaxChanges == 1

\* src/main.rs
MainRs == <<"s", "r", "c", "/", "m", "a", "i", "n", ".", "r", "s">>

\* src/Cargo.lock
CargoLock == <<"s", "r", "c", "/", "C", "a", "r", "g", "o", ".", "l", "o", "c", "k">>

Paths == {MainRs, CargoLock}

\* The user's patterns: none given, or *.rs
UserPatternSets == {None, Some({<<"*", ".", "r", "s">>})}

\* A text of n lines.
Long(n) == [i \in 1..n |-> "l"]

\* A blob of the object database.  Lines are whole lines, of any width, so
\* the length in bytes is chosen apart from them.
Blob(size, nul, lines) == Some([size |-> size, nul |-> nul, lines |-> lines])

TextA == Blob(2, FALSE, <<"a">>)

TextAB == Blob(4, FALSE, <<"a", "b">>)

AtCeiling == Blob(2 * MAX_CHANGE_LINES, FALSE, Long(MAX_CHANGE_LINES))

OverCeiling == Blob(2 * MAX_CHANGE_LINES + 2, FALSE, Long(MAX_CHANGE_LINES + 1))

WithNul == Blob(3, TRUE, <<"a">>)

TooLarge == Blob(MAX_BLOB_SIZE + 1, FALSE, <<"a">>)

AtSizeLimit == Blob(MAX_BLOB_SIZE, FALSE, <<"a">>)

\* The blobs of the object database, None being an id it does not hold.
Blobs ==
    {None, Blob(0, FALSE, <<>>), TextA, TextAB, AtCeiling, OverCeiling, WithNul, TooLarge,
     AtSizeLimit}

\* The old and the new blob of a modified file.
Modifications ==
    {<<TextA, TextAB>>, <<TextAB, TextA>>, <<TextA, OverCeiling>>,
     <<AtCeiling, OverCeiling>>, <<TextA, WithNul>>, <<TooLarge, TextA>>,
     <<None, TextA>>, <<TextA, None>>}

\* The old and the new blob of a renamed or copied file.
Rewrites == {<<TextA, TextA>>, <<TextA, TextAB>>}

\* One change of a tree diff.
Change(kind, copy, is_tree, location, source_location, source_id, id) ==
    [kind |-> kind, copy |-> copy, is_tree |-> is_tree, location |-> location,
     source_location |-> source_location, source_id |-> source_id, id |-> id]

\* The changes a tree diff reports: a new directory, and for each path a
\* file added, deleted, modified, renamed or copied.
TreeChanges ==
    {Change("Addition", FALSE, TRUE, <<"s", "r", "c">>, <<>>, None, None)}
      \cup {Change(kind, FALSE, FALSE, path, <<>>, None, blob) :
              kind \in {"Addition", "Deletion"}, path \in Paths, blob \in Blobs}
      \cup {Change("Modification", FALSE, FALSE, path, <<>>, m[1], m[2]) :
              path \in Paths, m \in Modifications}
      \cup {Change("Rewrite", copy, FALSE, path, MainRs, r[1], r[2]) :
              copy \in BOOLEAN, path \in Paths, r \in Rewrites}

\* Every sequence of at most n changes.
RECURSIVE TreeDiffs(_)
TreeDiffs(n) ==
    IF n = 0 THEN {<<>>}
    ELSE LET shorter == TreeDiffs(n - 1) IN
         shorter \cup {<<change>> \o d : change \in TreeChanges,
                                         d \in {x \in shorter : Len(x) = n - 1}}

\* A repository handle just opened, with or without patterns of the user.
InitExtract ==
    /\ repo = [parents |-> [c \in Commits |-> IF c = 1 THEN {} ELSE {c - 1}],
               nparents |-> [c \in Commits |-> IF c = 1 THEN 0 ELSE 1],
               head |-> MaxCommits]
    /\ commit_cache = None
    /\ commit_index = 0
    /\ commit_range = None
    /\ result = Outcome("open", <<>>, Ok, NoCommit)
    /\ walks = 0
    /\ run = FreshRun
    /\ USER_PATTERNS \in UserPatternSets
    /\ call = NoCall

\* What the tree diff can report for a commit without parent, whose tree
\* is compared with repo.empty_tree(): every entry as an addition.
FromEmptyTree(tree_changes) ==
    \A n \in 1..Len(tree_changes) : tree_changes[n].kind = "Addition"

\* One application of extract_changes, to a root commit or to a commit with
\* a first parent.
ExtractChanges ==
    /\ call.fn = ""
    /\ \E root \in BOOLEAN, tree_changes \in TreeDiffs(MaxChanges) :
         /\ root => FromEmptyTree(tree_changes)
         /\ call' = [fn |-> "extract_changes", arg |-> tree_changes, root |-> root,
                     out |-> extract_changes(tree_changes)]
    /\ UNCHANGED <<repo, commit_cache, commit_index, commit_range, result, walks, run,
                   USER_PATTERNS>>

NextExtract == ExtractChanges

SpecExtract == InitExtract /\ [][NextExtract]_vars

Extracted == call.fn = "extract_changes"

\* The FileChanges extract_changes returned.
Files == IF Extracted THEN Range(call.out) ELSE {}

\* The changed lines of a file, counted on the hunks the line diff makes of
\* its contents; a binary file is not diffed and has none.
ChangedLines(file) ==
    IF file.is_binary THEN 0
    ELSE LineCount(generate_hunks(file.old_content, file.new_content))

\* C16: every FileChange that is excluded or binary has no hunks.
C16_ExcludedOrBinaryHasNoHunks ==
    \A file \in Files : (file.is_excluded \/ file.is_binary) => file.hunks = <<>>

\* C17: a file with more than 2000 changed lines is returned excluded, with
\* the reason that holds the count, and without hunks.
C17_OverCeilingSuppressed ==
    \A file \in Files :
        ChangedLines(file) > MAX_CHANGE_LINES
        => /\ file.is_excluded
           /\ file.exclusion_reason = Some(TooManyReason(ChangedLines(file)))
           /\ file.hunks = <<>>

\* C18: a reason is recorded exactly for the excluded files; a file the
\* policy excludes is excluded with 'lock/generated file', however many
\* lines changed; a file is excluded with 'too many changes' only when the
\* policy does not exclude it and more than 2000 lines changed; no file is
\* excluded otherwise.
C18_PolicyBeforeCeiling ==
    \A file \in Files :
        /\ file.exclusion_reason # None <=> file.is_excluded
        /\ should_exclude_file(file.path)
              => (file.is_excluded /\ file.exclusion_reason = Some(LockReason))
        /\ ~should_exclude_file(file.path)
              => IF ChangedLines(file) > MAX_CHANGE_LINES
                 THEN /\ file.is_excluded
                      /\ file.exclusion_reason = Some(TooManyReason(ChangedLines(file)))
                 ELSE ~file.is_excluded

C18_Witness ==
    \E file \in Files :
        /\ file.path = CargoLock
        /\ should_exclude_file(file.path)
        /\ ChangedLines(file) = MAX_CHANGE_LINES + 1
        /\ file.exclusion_reason = Some(LockReason)

\* The policy excludes the file and more than 2000 of its lines changed.
BothApply(file) ==
    should_exclude_file(file.path) /\ ChangedLines(file) > MAX_CHANGE_LINES

----------------------------------------------------------------------------
(* Which commits reach the extractor *)

\* C20: every commit an operation has loaded, and so handed to
\* extract_metadata_with_changes and extract_changes, has at most one parent.
C20_NoMergeExtracted ==
    (result.err = Ok /\ result.commit # NoCommit) => repo.nparents[result.commit] <= 1

----------------------------------------------------------------------------
(* The extractor: binary files and root commits *)

\* The changes of the tree diff that are not trees, in its order: the n-th
\* FileChange returned is made of the n-th of them.
FileEntries == SelectSeq(call.arg, LAMBDA change : ~change.is_tree)

\* The blob of the old side of a change and that of its new side; None
\* where the change has no such side or the object cannot be found.
OldBlob(change) ==
    IF change.kind = "Addition" THEN None
    ELSE IF change.kind = "Deletion" THEN change.id
    ELSE change.source_id

NewBlob(change) == IF change.kind = "Deletion" THEN None ELSE change.id

\* The blob is found and is longer than 500 KiB or holds a NUL byte.
LooksBinary(blob) == blob # None /\ (blob[1].size > 500 * 1024 \/ blob[1].nul)

\* C21: every change that is not a tree is recorded; it is binary exactly
\* when one of its blobs is longer than 500*1024 bytes or holds a NUL byte,
\* so a blob of exactly 500*1024 bytes without NUL does not make it binary;
\* a binary change has no hunks, and the content of each binary blob is
\* absent.
C21_BinaryClassification ==
    Extracted =>
        /\ Len(call.out) = Len(FileEntries)
        /\ \A n \in 1..Len(call.out) :
              LET change == FileEntries[n]
                  file == call.out[n]
              IN /\ file.is_binary
                       <=> (LooksBinary(OldBlob(change)) \/ LooksBinary(NewBlob(change)))
                 /\ file.is_binary => file.hunks = <<>>
                 /\ LooksBinary(OldBlob(change)) => file.old_content = None
                 /\ LooksBinary(NewBlob(change)) => file.new_content = None

C21_Witness ==
    /\ Extracted
    /\ \E n \in 1..Len(call.out) :
          /\ FileEntries[n].kind = "Modification"
          /\ call.out[n].is_binary
          /\ call.out[n].old_content # None
          /\ call.out[n].new_content = None

\* C22: for a root commit every entry of the tree diff that is not a tree
\* yields one FileChange, for its path, with status Added and no old_path,
\* whose hunks hold Additions only; the trees yield none.
C22_RootCommit ==
    (Extracted /\ call.root) =>
        /\ Len(call.out) = Len(FileEntries)
        /\ \A n \in 1..Len(call.out) :
              LET file == call.out[n] IN
              /\ file.path = FileEntries[n].location
              /\ file.status = "Added"
              /\ file.old_path = None
              /\ \A h \in 1..Len(file.hunks) : \A k \in 1..Len(file.hunks[h].lines) :
                    file.hunks[h].lines[k].change_type = "Addition"

C22_Witness ==
    /\ Extracted
    /\ call.root
    /\ Len(call.out) = 1
    /\ call.out[1].status = "Added"
    /\ Len(call.out[1].hunks) = 1
    /\ Len(call.out[1].hunks[1].lines) = 2

----------------------------------------------------------------------------
(* The line diff builder on its own: one application of generate_hunks *)

\* The most lines of a text that is diffed.
MaxLines == 3

\* The contents generate_hunks is given: none, or a text of lines a, b, c.
Contents == {None} \cup {Some(text) : text \in Texts({"a", "b", "c"}, MaxLines)}

\* A process that has diffed nothing yet.
InitHunks == InitExtract /\ USER_PATTERNS = None

\* One application of generate_hunks.
GenerateHunks ==
    /\ call.fn = ""
    /\ \E old_content \in Contents, new_content \in Contents :
         call' = [fn |-> "generate_hunks", arg |-> <<old_content, new_content>>,
                  out |-> generate_hunks(old_content, new_content)]
    /\ UNCHANGED <<repo, commit_cache, commit_index, commit_range, result, walks, run,
                   USER_PATTERNS>>

NextHunks == GenerateHunks

SpecHunks == InitHunks /\ [][NextHunks]_vars

Diffed == call.fn = "generate_hunks"

\* The hunks generate_hunks returned.
Hunks == IF Diffed THEN Range(call.out) ELSE {}

\* The lines of the hunk that are of the type, in their order.
LinesOf(hunk, type) == SelectSeq(hunk.lines, LAMBDA line : line.change_type = type)

\* C23: in every hunk old_lines is the number of its Deletions and
\* new_lines the number of its Additions, and it holds no other line.
C23_LineCounts ==
    \A hunk \in Hunks :
        /\ hunk.old_lines = Len(LinesOf(hunk, "Deletion"))
        /\ hunk.new_lines = Len(LinesOf(hunk, "Addition"))
        /\ Len(hunk.lines) = hunk.old_lines + hunk.new_lines

C23_Witness ==
    \E hunk \in Hunks :
        /\ hunk.old_lines = 2
        /\ hunk.new_lines = 1
        /\ Len(hunk.lines) = 3

\* C24: in every hunk the i-th Deletion, counted from 0, has old_line_no
\* old_start + i and no new_line_no, and the j-th Addition has new_line_no
\* new_start + j and no old_line_no.
C24_LineNumbers ==
    \A hunk \in Hunks :
        LET deletions == LinesOf(hunk, "Deletion")
            additions == LinesOf(hunk, "Addition")
        IN /\ \A i \in 0..(Len(deletions) - 1) :
                 /\ deletions[i + 1].old_line_no = Some(hunk.old_start + i)
                 /\ deletions[i + 1].new_line_no = None
           /\ \A j \in 0..(Len(additions) - 1) :
                 /\ additions[j + 1].new_line_no = Some(hunk.new_start + j)
                 /\ additions[j + 1].old_line_no = None

C24_Witness ==
    \E hunk \in Hunks :
        /\ hunk.old_start = 2
        /\ hunk.new_start = 3
        /\ Len(LinesOf(hunk, "Deletion")) = 1
        /\ Len(LinesOf(hunk, "Addition")) = 1


\* The two texts that were diffed, absent content being the empty text.
OldText == IF call.arg[1] = None THEN <<>> ELSE call.arg[1][1]

NewText == IF call.arg[2] = None THEN <<>> ELSE call.arg[2][1]

\* The texts have as many lines and differ at line k only, whose new line
\* is no line of the old text.
ReplacedAt(k) ==
    /\ Len(OldText) = Len(NewText)
    /\ k \in 1..Len(OldText)
    /\ \A n \in 1..Len(OldText) : (OldText[n] # NewText[n]) <=> (n = k)
    /\ \A n \in 1..Len(OldText) : OldText[n] # NewText[k]

\* The hunk that replaces line k by one line.
Replacement(k) ==
    [old_start |-> k, old_lines |-> 1, new_start |-> k, new_lines |-> 1,
     lines |-> <<[change_type |-> "Deletion", content |-> OldText[k],
                  old_line_no |-> Some(k), new_line_no |-> None],
                 [change_type |-> "Addition", content |-> NewText[k],
                  old_line_no |-> None, new_line_no |-> Some(k)]>>]

\* The lines between two hunks, or before the first (h = 0) or after the
\* last, as the old and as the new text have them.
Between(h) ==
    LET hunks == call.out
        old_from == IF h = 0 THEN 1 ELSE hunks[h].old_start + hunks[h].old_lines
        new_from == IF h = 0 THEN 1 ELSE hunks[h].new_start + hunks[h].new_lines
        old_to == IF h = Len(hunks) THEN Len(OldText) ELSE hunks[h + 1].old_start - 1
        new_to == IF h = Len(hunks) THEN Len(NewText) ELSE hunks[h + 1].new_start - 1
    IN [old |-> SubSeq(OldText, old_from, old_to), new |-> SubSeq(NewText, new_from, new_to),
        old_gap |-> old_to - old_from + 1, new_gap |-> new_to - new_from + 1]

\* C25: a text whose line k alone is replaced, by a line it does not have,
\* gives exactly the hunk (k, 1, k, 1) of the Deletion and the Addition of
\* line k; and of any two texts every hunk changes a line, the lines
\* outside the hunks are the same in both texts, and two hunks that follow
\* each other have an unchanged line between them.
C25_OneHunkPerRun ==
    Diffed =>
        /\ \A k \in 1..MaxLines : ReplacedAt(k) => call.out = <<Replacement(k)>>
        /\ \A h \in 1..Len(call.out) : call.out[h].old_lines + call.out[h].new_lines >= 1
        /\ \A h \in 0..Len(call.out) :
              /\ Between(h).old = Between(h).new
              /\ Between(h).old_gap = Between(h).new_gap
              /\ Between(h).old_gap >= (IF h \in 1..(Len(call.out) - 1) THEN 1 ELSE 0)

C25_Witness ==
    /\ Diffed
    /\ ReplacedAt(2)
    /\ Len(OldText) = 3
    /\ call.out = <<Replacement(2)>>


\* The hunk of a whole text of the type, which is all the one side has.
WholeText(text, type) ==
    [old_start |-> 1, old_lines |-> IF type = "Deletion" THEN Len(text) ELSE 0,
     new_start |-> 1, new_lines |-> IF type = "Addition" THEN Len(text) ELSE 0,
     lines |-> [n \in 1..Len(text) |->
                  [change_type |-> type, content |-> text[n],
                   old_line_no |-> IF type = "Deletion" THEN Some(n) ELSE None,
                   new_line_no |-> IF type = "Addition" THEN Some(n) ELSE None]]]

\* C26: absent content gives the hunks that empty content gives; two
\* empty texts give no hunk, an empty old text and a new one of n >= 1
\* lines the one hunk (1, 0, 1, n) of n Additions, and an empty new text
\* and an old one of n >= 1 lines the one hunk (1, n, 1, 0) of n Deletions.
C26_AbsentIsEmpty ==
    Diffed =>
        /\ call.out = generate_hunks(Some(OldText), Some(NewText))
        /\ (OldText = <<>> /\ NewText = <<>>) => call.out = <<>>
        /\ (OldText = <<>> /\ NewText # <<>>) => call.out = <<WholeText(NewText, "Addition")>>
        /\ (OldText # <<>> /\ NewText = <<>>) => call.out = <<WholeText(OldText, "Deletion")>>

C26_Witness ==
    /\ Diffed
    /\ call.arg[1] = None
    /\ Len(NewText) = 2
    /\ call.out = <<WholeText(NewText, "Addition")>>


\* The line with its type and the side of its number exchanged.
Flip(line) ==
    [change_type |-> IF line.change_type = "Addition" THEN "Deletion" ELSE "Addition",
     content |-> line.content,
     old_line_no |-> line.new_line_no,
     new_line_no |-> line.old_line_no]

\* The hunks with old and new exchanged; a hunk lists its Deletions first.
Mirror(hunks) ==
    [h \in 1..Len(hunks) |->
       [old_start |-> hunks[h].new_start, old_lines |-> hunks[h].new_lines,
        new_start |-> hunks[h].old_start, new_lines |-> hunks[h].old_lines,
        lines |-> [n \in 1..hunks[h].new_lines |-> Flip(LinesOf(hunks[h], "Addition")[n])]
                    \o [n \in 1..hunks[h].old_lines |-> Flip(LinesOf(hunks[h], "Deletion")[n])]]]

\* The changed regions of every shortest edit script that turns what a has
\* after line i into what b has after line j: the script keeps a longest
\* common subsequence, whose first pair of kept lines is chosen here.
RECURSIVE EditScripts(_, _, _, _)
EditScripts(a, b, i, j) ==
    LET ra == SubSeq(a, i + 1, Len(a))
        rb == SubSeq(b, j + 1, Len(b))
        n == Lcs(ra, rb)
        kept == {e \in (0..(Len(ra) - 1)) \X (0..(Len(rb) - 1)) :
                   /\ ra[e[1] + 1] = rb[e[2] + 1]
                   /\ 1 + Lcs(SubSeq(ra, e[1] + 2, Len(ra)),
                              SubSeq(rb, e[2] + 2, Len(rb))) = n}
        region(e) == IF e = <<0, 0>> THEN <<>>
                     ELSE <<[before |-> <<i, i + e[1]>>, after |-> <<j, j + e[2]>>]>>
    IN IF ra = <<>> /\ rb = <<>> THEN {<<>>}
       ELSE IF n = 0 THEN {region(<<Len(ra), Len(rb)>>)}
       ELSE UNION {{region(e) \o rest :
                      rest \in EditScripts(a, b, i + e[1] + 1, j + e[2] + 1)} : e \in kept}

\* The two texts have one shortest edit script only.
Unambiguous(a, b) == Cardinality(EditScripts(a, b, 0, 0)) = 1

\* The hunks of the two texts diffed the other way round.
Backwards == generate_hunks(call.arg[2], call.arg[1])

\* C27 as stated: for all texts the hunks of the diff the other way round
\* are the mirror image of the hunks.
C27_MirrorImages == Diffed => Backwards = Mirror(call.out)

\* C27: for two texts that have one shortest edit script only, the hunks of
\* the diff the other way round are the mirror image of the hunks.
C27_MirrorWhenUnambiguous ==
    (Diffed /\ Unambiguous(OldText, NewText)) => Backwards = Mirror(call.out)

C27_Witness ==
    /\ Diffed
    /\ Unambiguous(OldText, NewText)
    /\ Len(call.out) = 2
    /\ \E h \in 1..2 : call.out[h].old_lines = 1 /\ call.out[h].new_lines = 1
    /\ Backwards = Mirror(call.out)

----------------------------------------------------------------------------
(* The user's ignore patterns: init_ignore_patterns and should_exclude_file *)

\* The most patterns of one call of init_ignore_patterns.
MaxPatterns == 2

ErrGlob == "Invalid glob pattern"

ErrInitialized == "User patterns already initialized"

\* *.svg
AnySvg == <<"*", ".", "s", "v", "g">>

\* dist/**
UnderDist == <<"d", "i", "s", "t", "/", "*", "*">>

\* [invalid
Unclosed == <<"[", "i", "n", "v", "a", "l", "i", "d">>

\* *.json
AnyJson == <<"*", ".", "j", "s", "o", "n">>

Globs == {AnySvg, UnderDist, AnyJson, Unclosed}

\* Glob::new: a character class that is opened must be closed.  (GlobMatch
\* knows no character classes; no glob of Globs has a closed one.)
ValidGlob(glob) ==
    \A i \in 1..Len(glob) :
        glob[i] = "[" => \E k \in (i + 2)..Len(glob) : glob[k] = "]"

\* The lists of patterns init_ignore_patterns is called with.
PatternLists == Texts(Globs, MaxPatterns)

\* src/Cargo.lock
SrcCargoLock == <<"s", "r", "c", "/", "C", "a", "r", "g", "o", ".", "l", "o", "c", "k">>

\* dist/bundle.min.js
DistBundleMinJs == <<"d", "i", "s", "t", "/", "b", "u", "n", "d", "l", "e", ".", "m", "i", "n", ".", "j", "s">>

\* package.json
PackageJson == <<"p", "a", "c", "k", "a", "g", "e", ".", "j", "s", "o", "n">>

\* lock.txt
LockTxt == <<"l", "o", "c", "k", ".", "t", "x", "t">>

\* minify.rs
MinifyRs == <<"m", "i", "n", "i", "f", "y", ".", "r", "s">>

\* app.js
AppJs == <<"a", "p", "p", ".", "j", "s">>

\* Cargo.lock.bak
CargoLockBak == <<"C", "a", "r", "g", "o", ".", "l", "o", "c", "k", ".", "b", "a", "k">>

\* myCargo.lock
MyCargoLock == <<"m", "y", "C", "a", "r", "g", "o", ".", "l", "o", "c", "k">>

\* __snapshots__/a.js
SnapshotsDir == <<"_", "_", "s", "n", "a", "p", "s", "h", "o", "t", "s", "_", "_", "/", "a", ".", "j", "s">>

\* a.min.js/b
MinJsDir == <<"a", ".", "m", "i", "n", ".", "j", "s", "/", "b">>

\* img/icon.svg
IconSvg == <<"i", "m", "g", "/", "i", "c", "o", "n", ".", "s", "v", "g">>

\* dist/app.js
DistAppJs == <<"d", "i", "s", "t", "/", "a", "p", "p", ".", "j", "s">>

\* The paths should_exclude_file is asked about.
IgnorePaths == {SrcCargoLock, DistBundleMinJs, PackageJson, LockTxt, MinifyRs, AppJs,
                CargoLockBak, MyCargoLock, SnapshotsDir, MinJsDir, IconSvg, DistAppJs}

\* What init_ignore_patterns returns and what USER_PATTERNS is after it.
returning(err, named, set) == [err |-> err, named |-> named, set |-> set]

\* init_ignore_patterns building a set of no glob from an empty list.
init_ignore_patterns_sets_empty(patterns) ==
    LET invalid == {i \in 1..Len(patterns) : ~ValidGlob(patterns[i])} IN
    IF invalid # {}
    THEN returning(ErrGlob, Some(patterns[CHOOSE i \in invalid : \A k \in invalid : i <= k]),
                   USER_PATTERNS)
    ELSE IF USER_PATTERNS # None THEN returning(ErrInitialized, None, USER_PATTERNS)
    ELSE returning(Ok, None, Some(Range(patterns)))

\* init_ignore_patterns storing the set whether or not one is stored.
init_ignore_patterns_overwrites(patterns) ==
    LET invalid == {i \in 1..Len(patterns) : ~ValidGlob(patterns[i])} IN
    IF patterns = <<>> THEN returning(Ok, None, USER_PATTERNS)
    ELSE IF invalid # {}
    THEN returning(ErrGlob, Some(patterns[CHOOSE i \in invalid : \A k \in invalid : i <= k]),
                   USER_PATTERNS)
    ELSE returning(Ok, None, Some(Range(patterns)))

\* fn init_ignore_patterns: nothing to do for an empty list; else every
\* pattern is compiled, the first that is no glob being the error, and the
\* set is stored unless one is stored already.
init_ignore_patterns(patterns) ==
    LET invalid == {i \in 1..Len(patterns) : ~ValidGlob(patterns[i])} IN
    IF patterns = <<>> THEN returning(Ok, None, USER_PATTERNS)
    ELSE IF invalid # {}
    THEN returning(ErrGlob, Some(patterns[CHOOSE i \in invalid : \A k \in invalid : i <= k]),
                   USER_PATTERNS)
    ELSE IF USER_PATTERNS # None THEN returning(ErrInitialized, None, USER_PATTERNS)
    ELSE returning(Ok, None, Some(Range(patterns)))

\* A process that has configured no pattern.
InitIgnore == InitExtract /\ USER_PATTERNS = None

\* A call of init_ignore_patterns.
InitIgnorePatterns ==
    /\ \E patterns \in PatternLists :
         LET returned == init_ignore_patterns(patterns) IN
         /\ USER_PATTERNS' = returned.set
         /\ call' = [fn |-> "init_ignore_patterns", arg |-> patterns,
                     out |-> returned.err, named |-> returned.named]
    /\ UNCHANGED <<repo, commit_cache, commit_index, commit_range, result, walks, run>>

\* A call of should_exclude_file.
ShouldExcludeFile ==
    /\ \E path \in IgnorePaths :
         call' = [fn |-> "should_exclude_file", arg |-> path,
                  out |-> should_exclude_file(path), named |-> None]
    /\ UNCHANGED <<repo, commit_cache, commit_index, commit_range, result, walks, run,
                   USER_PATTERNS>>

NextIgnore == InitIgnorePatterns \/ ShouldExcludeFile

SpecIgnore == InitIgnore /\ [][NextIgnore]_vars


Asked == call.fn = "should_exclude_file"

\* The last of the components of the path that its slashes separate.
LastComponent(path) ==
    LET components == Split(path, <<Slash>>) IN components[Len(components)]

\* The path is one the user or the lists of the program exclude.
Listed(path, user_patterns) ==
    \/ user_patterns # None /\ \E glob \in user_patterns[1] : GlobMatch(glob, path)
    \/ \E name \in EXCLUDED_FILES : LastComponent(path) = name
    \/ \E pattern \in EXCLUDED_PATTERNS :
          \/ EndsWith(LastComponent(path), pattern)
          \/ Contains(path, pattern)

\* C28: should_exclude_file is true of a path exactly when a glob of the
\* user matches the path, or its last component is a lock file name, or a
\* pattern of generated files ends the file name or occurs in the path;
\* without user patterns it is true of src/Cargo.lock and
\* dist/bundle.min.js and false of package.json, lock.txt, minify.rs and
\* app.js.
C28_ShouldExclude ==
    Asked =>
        /\ call.out = Listed(call.arg, USER_PATTERNS)
        /\ USER_PATTERNS = None =>
              /\ call.arg \in {SrcCargoLock, DistBundleMinJs} => call.out
              /\ call.arg \in {PackageJson, LockTxt, MinifyRs, AppJs} => ~call.out

C28_Witness ==
    /\ Asked
    /\ USER_PATTERNS = None
    /\ call.arg = SrcCargoLock
    /\ call.out


\* The step is a call of init_ignore_patterns.
Configuring == call'.fn = "init_ignore_patterns"

\* The list holds a pattern that is no glob.
HasInvalid(patterns) == \E i \in 1..Len(patterns) : ~ValidGlob(patterns[i])

\* The list is one that configures nothing: it is empty or holds a pattern
\* that is no glob.
ConfiguresNothing(patterns) == patterns = <<>> \/ HasInvalid(patterns)

\* C29 as stated: once a pattern set is configured it never changes, and
\* every later call with patterns fails with 'User patterns already
\* initialized'.
C29_LaterAttemptsFailInitialized ==
    [][USER_PATTERNS # None =>
          /\ USER_PATTERNS' = USER_PATTERNS
          /\ (Configuring /\ call'.arg # <<>>) => call'.out = ErrInitialized]_vars

\* C29: once a pattern set is configured it never changes; a later call
\* with globs only fails with 'User patterns already initialized', one with
\* a pattern that is no glob fails with 'Invalid glob pattern' and names the
\* first such pattern, and one with no pattern returns Ok.
C29_WriteOnce ==
    [][USER_PATTERNS # None =>
          /\ USER_PATTERNS' = USER_PATTERNS
          /\ Configuring =>
                /\ call'.arg = <<>> => call'.out = Ok
                /\ HasInvalid(call'.arg) =>
                      /\ call'.out = ErrGlob
                      /\ call'.named # None
                      /\ ~ValidGlob(call'.named[1])
                /\ ~ConfiguresNothing(call'.arg) => call'.out = ErrInitialized]_vars

C29_Witness ==
    /\ USER_PATTERNS = Some({AnySvg})
    /\ call.fn = "init_ignore_patterns"
    /\ call.arg = <<UnderDist>>
    /\ call.out = ErrInitialized

\* C30: a call with no pattern returns Ok and one with a pattern that is no
\* glob returns an error, and both leave the pattern set as it is; when no
\* set is configured after such a call, a call with globs only returns Ok
\* and configures them.
C30_NothingConfigured ==
    [][Configuring =>
          /\ ConfiguresNothing(call'.arg) =>
                /\ USER_PATTERNS' = USER_PATTERNS
                /\ call'.out = (IF call'.arg = <<>> THEN Ok ELSE ErrGlob)
          /\ (/\ call.fn = "init_ignore_patterns"
              /\ ConfiguresNothing(call.arg)
              /\ USER_PATTERNS = None
              /\ ~ConfiguresNothing(call'.arg)) =>
                /\ call'.out = Ok
                /\ USER_PATTERNS' = Some(Range(call'.arg))]_vars

C30_Witness ==
    /\ USER_PATTERNS = None
    /\ call.fn = "init_ignore_patterns"
    /\ call.arg = <<AnySvg, Unclosed>>
    /\ call.out = ErrGlob
    /\ call.named = Some(Unclosed)

----------------------------------------------------------------------------
(* The extractor: the ceiling of changed lines *)

\* C31: a file whose path the policy does not exclude is excluded exactly
\* when more than 2000 of its lines changed; with exactly 2000 changed lines
\* it is returned not excluded and without a reason.
C31_CeilingIsStrict ==
    \A file \in Files :
        ~should_exclude_file(file.path) =>
            /\ file.is_excluded <=> ChangedLines(file) > MAX_CHANGE_LINES
            /\ ChangedLines(file) = MAX_CHANGE_LINES =>
                  (~file.is_excluded /\ file.exclusion_reason = None)

C31_Witness ==
    \E file \in Files :
        /\ ~should_exclude_file(file.path)
        /\ ChangedLines(file) = MAX_CHANGE_LINES
        /\ ~file.is_excluded
        /\ file.exclusion_reason = None

----------------------------------------------------------------------------
(* The handle: errors, panics, exhaustion and the reading operations *)

\* C32: a sequential operation that returns an error leaves the cursor where
\* it was, also when the error is that of loading the selected commit.
C32_ErrorKeepsCursor ==
    [][(result'.op \in SequentialOps /\ result'.err # Ok)
          => commit_index' = commit_index]_vars


\* The public operations of the handle.
PublicOps ==
    {"get_commit", "random_commit", "reset_index", "set_commit_range", "random_range_commit"}
        \cup SequentialOps

\* RefCell::borrow, RefCell::borrow_mut and the end of a borrow, of one of
\* the three cells of the handle.
Borrow(cell) == [act |-> "borrow", cell |-> cell]

BorrowMut(cell) == [act |-> "borrow_mut", cell |-> cell]

Drop(cell) == [act |-> "drop", cell |-> cell]

\* What an operation does to the cells, in the order of its statements; a
\* borrow ends where it is dropped or where the function returns.
Borrows(op) ==
    LET populate == <<BorrowMut("commit_cache"), Drop("commit_cache")>>
        history == populate \o <<Borrow("commit_cache"), BorrowMut("commit_index"),
                                 Drop("commit_index"), Drop("commit_cache")>>
        range == <<Borrow("commit_range"), BorrowMut("commit_index"),
                   Drop("commit_index"), Drop("commit_range")>>
    IN CASE op = "get_commit" -> <<>>
         [] op = "random_commit" -> <<BorrowMut("commit_cache"), Drop("commit_cache")>>
         [] op \in {"next_asc_commit", "next_desc_commit"} -> history
         [] op = "reset_index" -> <<BorrowMut("commit_index"), Drop("commit_index")>>
         [] op = "set_commit_range" ->
              <<BorrowMut("commit_range"), Drop("commit_range"),
                BorrowMut("commit_index"), Drop("commit_index")>>
         [] op \in {"next_range_commit_asc", "next_range_commit_desc"} -> range
         [] op = "random_range_commit" -> <<Borrow("commit_range"), Drop("commit_range")>>

\* RefCell: no borrow_mut of a cell that is borrowed, no borrow of a cell that
\* is mutably borrowed; held is the number of borrows of each cell, a mutable
\* one counting as -1.
RECURSIVE BorrowsAllowed(_, _)
BorrowsAllowed(events, held) ==
    IF events = <<>> THEN TRUE
    ELSE LET e == Head(events)
             n == held[e.cell]
         IN CASE e.act = "borrow_mut" ->
                   n = 0 /\ BorrowsAllowed(Tail(events), [held EXCEPT ![e.cell] = -1])
              [] e.act = "borrow" ->
                   n >= 0 /\ BorrowsAllowed(Tail(events), [held EXCEPT ![e.cell] = n + 1])
              [] OTHER ->
                   BorrowsAllowed(Tail(events),
                                  [held EXCEPT ![e.cell] = IF n < 0 THEN 0 ELSE n - 1])

NothingBorrowed == [cell \in {"commit_cache", "commit_index", "commit_range"} |-> 0]

\* The errors the operations return by name.
ExplicitErrors ==
    {ErrNoNonMerge, ErrAllPlayed, ErrRangeNotSet, ErrRangeEmpty, ErrRangePlayed,
     ErrSymmetric, ErrFormat, ErrHead, ErrRevision, ErrLoad}

\* C33: no operation leaves the bounds of its list or finds a cell borrowed:
\* no index is refused by the list (len - 1 - cursor is never below 0 and
\* never reaches len), a populated cache is not empty, the borrows of every
\* operation are allowed, and every call returns a commit of the list it
\* addressed or one of the named errors, however the whole-history and the
\* range operations are mixed.
C33_NoPanic ==
    /\ result.err \notin {ErrSelect, "Failed to select random commit"}
    /\ commit_cache # None => commit_cache[1] # <<>>
    /\ \A op \in PublicOps : BorrowsAllowed(Borrows(op), NothingBorrowed)
    /\ result.err # Ok => result.err \in ExplicitErrors
    /\ (result.err = Ok /\ result.op \in HistoryOps) =>
          (commit_cache # None /\ result.commit \in Range(commit_cache[1]))
    /\ (result.err = Ok /\ result.op \in RangeOps) =>
          (commit_range # None /\ result.commit \in Range(commit_range[1]))

\* A descending range call made with the cursor that whole-history playback
\* left beyond the end of the range.
C33_Witness ==
    /\ result.op = "next_range_commit_desc"
    /\ result.err = ErrRangePlayed
    /\ run.kind = "mixed"
    /\ commit_range # None
    /\ Len(commit_range[1]) >= 1
    /\ commit_index > Len(commit_range[1])


\* The handle with the run before a reset observed: sequential playback,
\* reset_index and set_commit_range.
InitReplay ==
    /\ repo \in Repositories
    /\ commit_cache = None
    /\ commit_index = 0
    /\ commit_range = None
    /\ result = Outcome("open", <<>>, Ok, NoCommit)
    /\ walks = 0
    /\ run = FreshRun
    /\ USER_PATTERNS = None
    /\ call = Replaying

NextReplay ==
    \/ next_asc_commit
    \/ next_desc_commit
    \/ next_range_commit_asc
    \/ next_range_commit_desc
    \/ reset_index
    \/ set_commit_range

SpecReplay == InitReplay /\ [][NextReplay]_vars


\* The cursor is at or beyond the end of the whole-history list, and
\* likewise of the range.
HistoryPlayed == commit_cache # None /\ commit_index >= Len(commit_cache[1])

RangePlayed ==
    /\ commit_range # None
    /\ commit_range[1] # <<>>
    /\ commit_index >= Len(commit_range[1])

\* The step is reset_index or a set_commit_range that succeeds.
Resetting ==
    \/ result'.op = "reset_index"
    \/ result'.op = "set_commit_range" /\ result'.err = Ok

\* A run of one kind has ended in exhaustion, and so had the run of the same
\* kind that the last reset_index ended.
Replayed == Exhausted /\ run.first # None /\ run.first[1].kind = run.kind

\* C34: a sequential call fails with 'all played' only when the cursor is at
\* or beyond the end of its list; from then on, until reset_index or a
\* set_commit_range that succeeds, the cursor stays there and every
\* sequential call on that list, in either direction, fails with the same
\* error; and a run played to exhaustion after reset_index has returned the
\* commits of the run before it, in the same order.
C34_ExhaustionIsSticky ==
    [][/\ (result'.op \in SequentialOps /\ result'.err = ErrAllPlayed) => HistoryPlayed'
       /\ (result'.op \in SequentialOps /\ result'.err = ErrRangePlayed) => RangePlayed'
       /\ (HistoryPlayed /\ ~Resetting) =>
             /\ HistoryPlayed'
             /\ result'.op \in {"next_asc_commit", "next_desc_commit"}
                   => (result'.err = ErrAllPlayed /\ commit_index' = commit_index)
       /\ (RangePlayed /\ ~Resetting) =>
             /\ RangePlayed'
             /\ result'.op \in {"next_range_commit_asc", "next_range_commit_desc"}
                   => (result'.err = ErrRangePlayed /\ commit_index' = commit_index)
       /\ Replayed' =>
             /\ run'.commits = run'.first[1].commits
             /\ Len(run'.commits) = Len(IF run'.kind \in {"asc", "desc"}
                                        THEN commit_cache'[1] ELSE commit_range'[1])]_vars

C34_Witness ==
    /\ Replayed
    /\ run.kind = "asc"
    /\ Len(run.commits) >= 2
    /\ run.commits = run.first[1].commits


RandomOps == {"random_commit", "random_range_commit"}

\* C35: random_commit, random_range_commit and get_commit leave the cursor
\* and the stored range as they are, and get_commit the whole-history cache
\* as well; a commit that random_commit returns is one of the whole-history
\* list and one that random_range_commit returns is one of the range; and
\* neither reports that all commits have been played, wherever the cursor is.
C35_ReadsOfThePosition ==
    [][/\ result'.op \in RandomOps \cup {"get_commit"} =>
             /\ commit_index' = commit_index
             /\ commit_range' = commit_range
       /\ result'.op = "get_commit" => commit_cache' = commit_cache
       /\ result'.op \in RandomOps => result'.err \notin {ErrAllPlayed, ErrRangePlayed}
       /\ (result'.op = "random_commit" /\ result'.err = Ok) =>
             \E i \in 0..(Len(commit_cache'[1]) - 1) :
                result'.commit = commit_cache'[1][i + 1]
       /\ (result'.op = "random_range_commit" /\ result'.err = Ok) =>
             \E i \in 0..(Len(commit_range[1]) - 1) :
                result'.commit = commit_range[1][i + 1]]_vars

\* random_range_commit has returned a commit of a range that sequential
\* playback has played to the end.
C35_Witness ==
    /\ result.op = "random_range_commit"
    /\ result.err = Ok
    /\ RangePlayed
    /\ Len(commit_range[1]) >= 2
    /\ result.commit \in Range(commit_range[1])


\* The errors of a range expression: the operator '...', a wrong number of
\* separators, an endpoint that is no revision, HEAD unborn.
RangeErrors == {ErrSymmetric, ErrFormat, ErrRevision, ErrHead}

\* C36: a set_commit_range that fails, which it does with one of the errors
\* of a range expression, leaves the stored range, the cursor and the
\* whole-history cache as they were.
C36_FailedSetRangeKeepsState ==
    [][(result'.op = "set_commit_range" /\ result'.err # Ok) =>
          /\ result'.err \in RangeErrors
          /\ commit_range' = commit_range
          /\ commit_index' = commit_index
          /\ commit_cache' = commit_cache]_vars

\* A range expression with '...' has been refused in the middle of a range
\* playback.
C36_Witness ==
    /\ result.op = "set_commit_range"
    /\ result.err = ErrSymmetric
    /\ run.kind = "range_asc"
    /\ commit_range # None
    /\ commit_index = 1
    /\ Len(commit_range[1]) >= 2

----------------------------------------------------------------------------
(* The hunks as an edit of the old text *)

\* The contents of the lines, in their order.
ContentsOf(lines) == [n \in 1..Len(lines) |-> lines[n].content]

\* The text that results from the old text, read from line pos on, when the
\* old lines of every hunk are replaced by its Additions.
RECURSIVE Patch(_, _, _)
Patch(old, hunks, pos) ==
    IF hunks = <<>> THEN SubSeq(old, pos, Len(old))
    ELSE LET hunk == Head(hunks) IN
         SubSeq(old, pos, hunk.old_start - 1)
            \o ContentsOf(LinesOf(hunk, "Addition"))
            \o Patch(old, Tail(hunks), hunk.old_start + hunk.old_lines)

\* C37: the Deletions of every hunk are the old lines old_start ..
\* old_start + old_lines - 1, in their order; the old text with these lines
\* replaced by the Additions of the hunk, for every hunk, is the new text;
\* and equal texts have no hunk.
C37_HunksTransformOldIntoNew ==
    Diffed =>
        /\ \A hunk \in Hunks :
             ContentsOf(LinesOf(hunk, "Deletion"))
                = SubSeq(OldText, hunk.old_start, hunk.old_start + hunk.old_lines - 1)
        /\ Patch(OldText, call.out, 1) = NewText
        /\ OldText = NewText => call.out = <<>>

C37_Witness ==
    /\ Diffed
    /\ Len(call.out) = 2
    /\ OldText # <<>>
    /\ Len(NewText) = MaxLines
    /\ Patch(OldText, call.out, 1) = NewText


\* C38: no hunk is empty; of two hunks that follow each other the second
\* starts, in the old and in the new text, after the line that follows the
\* end of the first; old_start is between 1 and the number of old lines + 1
\* and new_start between 1 and the number of new lines + 1; and in every
\* hunk all Deletions stand before all Additions.
C38_OrderedAndDisjoint ==
    Diffed =>
        /\ \A h \in 1..Len(call.out) :
             LET hunk == call.out[h] IN
             /\ hunk.old_lines + hunk.new_lines >= 1
             /\ hunk.old_start \in 1..(Len(OldText) + 1)
             /\ hunk.new_start \in 1..(Len(NewText) + 1)
             /\ \A m, n \in 1..Len(hunk.lines) :
                   (hunk.lines[m].change_type = "Deletion"
                       /\ hunk.lines[n].change_type = "Addition") => m < n
        /\ \A h \in 1..(Len(call.out) - 1) :
             /\ call.out[h].old_start + call.out[h].old_lines < call.out[h + 1].old_start
             /\ call.out[h].new_start + call.out[h].new_lines < call.out[h + 1].new_start

\* An added line, an unchanged line, and a line replaced by another.
C38_Witness ==
    /\ Diffed
    /\ Len(call.out) = 2
    /\ call.out[1].old_lines = 0
    /\ call.out[2].old_lines = 1
    /\ call.out[2].new_lines = 1
    /\ call.out[2].old_start = 2
    /\ call.out[2].new_start = 3

----------------------------------------------------------------------------
(* The user's ignore patterns under concurrent calls *)

\* The number of threads that call at the same time.
MaxThreads == 3

Threads == 1..MaxThreads

\* What a thread calls: init_ignore_patterns with a list of globs, or
\* should_exclude_file with a path.
Tasks ==
    {[op |-> "init_ignore_patterns", input |-> patterns] :
        patterns \in {<<AnySvg>>, <<UnderDist, AnyJson>>}}
        \cup {[op |-> "should_exclude_file", input |-> path] : path \in {IconSvg, DistAppJs}}

\* A thread that has not begun: pc is where it stands, globset the set it
\* has built, ret what init_ignore_patterns returned, seen what
\* USER_PATTERNS.get() gave and excluded what should_exclude_file returned.
Started == [pc |-> "start", globset |-> None, ret |-> "", seen |-> None, excluded |-> FALSE]

\* OnceLock::set storing the value whether or not one is stored.
set_last_wins(cell, value) == [cell |-> Some(value), ok |-> TRUE]

\* OnceLock::set: the value is stored if the cell is empty, in one step, and
\* refused otherwise.
set(cell, value) ==
    IF cell = None THEN [cell |-> Some(value), ok |-> TRUE]
    ELSE [cell |-> cell, ok |-> FALSE]

InitThreads ==
    /\ repo = [parents |-> [c \in Commits |-> IF c = 1 THEN {} ELSE {c - 1}],
               nparents |-> [c \in Commits |-> IF c = 1 THEN 0 ELSE 1],
               head |-> MaxCommits]
    /\ commit_cache = None
    /\ commit_index = 0
    /\ commit_range = None
    /\ result = Outcome("open", <<>>, Ok, NoCommit)
    /\ walks = 0
    /\ run = FreshRun
    /\ USER_PATTERNS = None
    /\ \E tasks \in [Threads -> Tasks] :
         call = [fn |-> "threads", arg |-> tasks, out |-> [t \in Threads |-> Started]]

\* The thread goes on with its record changed; the handle is not involved.
Goes(t, changed) ==
    /\ call' = [call EXCEPT !.out[t] = changed]
    /\ UNCHANGED <<repo, commit_cache, commit_index, commit_range, result, walks, run>>

\* init_ignore_patterns up to builder.build(): the set is built in the thread.
BuildGlobSet(t) ==
    /\ call.arg[t].op = "init_ignore_patterns"
    /\ call.out[t].pc = "start"
    /\ Goes(t, [call.out[t] EXCEPT !.pc = "built",
                                   !.globset = Some(Range(call.arg[t].input))])
    /\ UNCHANGED USER_PATTERNS

\* init_ignore_patterns from USER_PATTERNS.set(globset) to its return.
SetUserPatterns(t) ==
    /\ call.out[t].pc = "built"
    /\ LET stored == set(USER_PATTERNS, call.out[t].globset[1]) IN
         /\ USER_PATTERNS' = stored.cell
         /\ Goes(t, [call.out[t] EXCEPT !.pc = "done",
                                        !.ret = IF stored.ok THEN Ok ELSE ErrInitialized])

\* should_exclude_file: USER_PATTERNS.get() and the answer made of it.
ReadUserPatterns(t) ==
    /\ call.arg[t].op = "should_exclude_file"
    /\ call.out[t].pc = "start"
    /\ Goes(t, [call.out[t] EXCEPT !.pc = "done",
                                   !.seen = USER_PATTERNS,
                                   !.excluded = should_exclude_file(call.arg[t].input)])
    /\ UNCHANGED USER_PATTERNS

NextThreads ==
    \/ \E t \in Threads : BuildGlobSet(t)
    \/ \E t \in Threads : SetUserPatterns(t)
    \/ \E t \in Threads : ReadUserPatterns(t)

SpecThreads == InitThreads /\ [][NextThreads]_vars

\* The threads that call init_ignore_patterns, those of them that have
\* returned, and those that returned Ok.
Initializers == {t \in Threads : call.arg[t].op = "init_ignore_patterns"}

Returned == {t \in Initializers : call.out[t].pc = "done"}

Winners == {t \in Returned : call.out[t].ret = Ok}

\* C39: of the threads that call init_ignore_patterns with globs at most one
\* returns Ok, exactly one once any has returned, and every other returns
\* 'User patterns already initialized'; the pattern set is that of the
\* winner, whole; and a thread that calls should_exclude_file has seen no
\* pattern set or the whole set of the winner and has answered by it.
C39_OneWinner ==
    call.fn = "threads" =>
        /\ Cardinality(Winners) <= 1
        /\ Returned # {} => Cardinality(Winners) = 1
        /\ \A t \in Returned \ Winners : call.out[t].ret = ErrInitialized
        /\ USER_PATTERNS # None <=> Winners # {}
        /\ \A w \in Winners : USER_PATTERNS = Some(Range(call.arg[w].input))
        /\ \A t \in Threads \ Initializers :
             call.out[t].pc = "done" =>
                /\ \/ call.out[t].seen = None
                   \/ \E w \in Winners : call.out[t].seen = Some(Range(call.arg[w].input))
                /\ call.out[t].excluded = Listed(call.arg[t].input, call.out[t].seen)

\* Two threads have configured different lists and a third has been
\* answered by the set of the one that won.
C39_Witness ==
    /\ call.fn = "threads"
    /\ Cardinality(Returned) = 2
    /\ \E w \in Winners, l \in Returned \ Winners, t \in Threads \ Initializers :
          /\ call.arg[w].input # call.arg[l].input
          /\ call.out[l].ret = ErrInitialized
          /\ call.out[t].pc = "done"
          /\ call.out[t].seen = Some(Range(call.arg[w].input))
          /\ call.out[t].excluded

====
